---- MODULE Spec2Model ----
(***************************************************************************)
(* Volume Linker: the AudioDeviceManager link controller, the platform     *)
(* endpoints it drives and the change notifications it receives.           *)
(*                                                                         *)
(* Volume scalars are kept in thousandths (420 is 0.42, 1000 is 1.0).      *)
(* A handle (m_pMasterEndptVol, m_pSlaveEndptVol) is the index of the      *)
(* endpoint it is opened on, or nullptr.                                   *)
(*                                                                         *)
(* Controller operations and the notification handler are serialized on    *)
(* the GUI thread (main.cpp:223-225), so changes made by other             *)
(* applications and the delivery of notifications happen between           *)
(* controller operations.  linkDevices is followed in two steps, split     *)
(* where it marks the link active (part_000:173-175), because the state    *)
(* in between is the subject of some properties.                           *)
(***************************************************************************)
EXTENDS Integers, Sequences, FiniteSets, TLC

\* Bounds of the model: how many notifications may be waiting for delivery,
\* how many endpoints the platform's collection may hold when the catalog is
\* built, and how many processes of the program are started on the machine.
MaxQueue == 1
MaxScrollQueue == 2
MaxPosted == 1
MaxInvocations == 2
MaxCollection == 3
NumProcs == 3

\* Program constants.
MAX_VOL == 100
nullptr == -1

\* The catalog built by the constructor: two active endpoints, at positions 0 and 1.
Devices == {0, 1}
NumDevices == Cardinality(Devices)
\* Arguments tried for linkDevices: every valid index, one negative, one too large.
IndexArgs == {-1, 0, 1, 2}
Volumes == {0, 420}
ProcessGUID == "processGUID"
OtherGUID == "otherGUID"
Contexts == {ProcessGUID, OtherGUID}
LinkErrors == {"SelfLink", "InvalidIndex", "Activation", "Subscription", "StateRead", "Sync"}
\* Where the platform may fail a linkDevices call.
OpenFailures == {"none", "activateMaster", "activateSlave", "register"}
FinishFailures == {"none", "GetMute", "GetMasterVolumeLevelScalar",
                   "SetMasterVolumeLevelScalar", "SetMute"}
RelayFailures == {"none", "SetMasterVolumeLevelScalar", "SetMute"}

VARIABLES
    devVol, devMute,        \* platform: each endpoint's volume scalar and mute flag
    subs,                   \* platform: endpoints our callback object is registered on
    m_references,           \* the reference counter of the callback object
    queue,                  \* platform: notifications on their way to OnNotify
    m_exitCode, m_hDialog,
    m_bLinkActive, m_iMasterDeviceIdx, m_iSlaveDeviceIdx,
    m_pMasterEndptVol, m_pSlaveEndptVol,
    closePosted,            \* host: a WM_CLOSE has been posted to the dialog
    pc,                     \* position inside linkDevices ("idle" outside it, "closed"
                            \* once the dialog has handled WM_CLOSE)
    masterIdx, slaveIdx,    \* arguments of the last linkDevices call (-1 after another operation)
    pre,                    \* the master's <<volume, mute>> when that call began
    prevMaster, prevSlave,  \* the master and slave of the link the last linkDevices, unlinkDevices
                            \* or WM_CLOSE found and tore down (-1 if none, or after another operation)
    lastOp, result,         \* the operation that took the last step and its outcome
    pNotify,                \* the notification given to the last handler call (<<>> otherwise)
    written,                \* writes attempted through the slave handle by the last operation
    signal,                 \* dialog updates posted by the last operation
    fatal,                  \* the last operation reported a fatal sync failure
    collection,             \* platform: the endpoints EnumAudioEndpoints returns, in its order
    m_audioDevices,         \* the catalog (<<>> until the constructor has built it)
    ctorError,              \* what the constructor threw ("" if nothing, "unconstructed" before it ran)
    lookup,                 \* the last getDevice call on the catalog: its argument and result
    fScalar,                \* the float _updateDialog is given, named by its decimal literal in thousandths
    sliderVolume,           \* <<the slider position _updateDialog posted>> (<<>> if none yet)
    ppc,                    \* where each process of the program is in wWinMain
    mutexHandles,           \* platform: the processes holding a handle to the named mutex
    managers,               \* the processes that hold an AudioDeviceManager
    enumerated,             \* the processes that ever constructed an AudioDeviceManager
    exitCodes,              \* each process's exit code, <<>> while it has none
    registry,               \* platform: the values under HKCU\Software\VolumeLinker
    registry0,              \* the registry as the program found it when it started
    g_optForceLink,         \* the program was started with /link
    g_saveChanges, g_hDlg,
    g_deviceManager,        \* the host holds a controller (FALSE once it was destroyed)
    masterSel, slaveSel,    \* the selection of each dropdown (-1 if none)
    hostPc,                 \* where the host is in wWinMain
    boxOpen,                \* the handler stands in the MessageBoxW of its fatal report
    attempted,              \* the last host step called linkDevices
    errorBox,               \* the last host step showed its own error message box
    settings,               \* <<the settings as WM_INITDIALOG read them>> if it took the last
                            \* step, <<>> otherwise
    manual,                 \* the user has pressed the link button or changed a dropdown
    muteChecked,            \* the state of the mute checkbox of the dialog
    posted,                 \* the messages _updateDialog posted to the dialog's controls and
                            \* the dialog has not handled yet
    iVolume,                \* <<the slider position of the WM_HSCROLL just handled>> (<<>> otherwise)
    m_externalCallback,     \* the callable registered in the callback object ("" if none)
    invocations,            \* the notifications the registered callables were invoked with
    propagated              \* the last OnNotify call let an exception out to the platform

stateVars == <<devVol, devMute, subs, m_references, queue, m_exitCode, m_hDialog, m_bLinkActive,
               m_iMasterDeviceIdx, m_iSlaveDeviceIdx, m_pMasterEndptVol,
               m_pSlaveEndptVol, closePosted>>
callVars == <<pc, masterIdx, slaveIdx, pre, prevMaster, prevSlave>>
obsVars == <<lastOp, result, pNotify, written, signal, fatal>>
catalogVars == <<collection, m_audioDevices, ctorError, lookup>>
sliderVars == <<fScalar, sliderVolume>>
instanceVars == <<ppc, mutexHandles, managers, enumerated, exitCodes>>
hostVars == <<registry, registry0, g_optForceLink, g_saveChanges, g_hDlg, g_deviceManager,
              masterSel, slaveSel, hostPc, boxOpen, attempted, errorBox, settings, manual>>
controlVars == <<muteChecked, posted, iVolume>>
callbackVars == <<m_externalCallback, invocations, propagated>>
auxVars == <<catalogVars, sliderVars, instanceVars, hostVars, controlVars, callbackVars>>
vars == <<stateVars, callVars, obsVars, auxVars>>

\* The state of the controller, its host and the platform, as one record.
St ==
    [active |-> m_bLinkActive,
     mIdx |-> m_iMasterDeviceIdx, sIdx |-> m_iSlaveDeviceIdx,
     mVol |-> m_pMasterEndptVol, sVol |-> m_pSlaveEndptVol,
     exitCode |-> m_exitCode, hDialog |-> m_hDialog, closePosted |-> closePosted,
     subs |-> subs, refs |-> m_references, vol |-> devVol, mute |-> devMute,
     q |-> queue]

Assign(s) ==
    /\ m_bLinkActive' = s.active
    /\ m_iMasterDeviceIdx' = s.mIdx
    /\ m_iSlaveDeviceIdx' = s.sIdx
    /\ m_pMasterEndptVol' = s.mVol
    /\ m_pSlaveEndptVol' = s.sVol
    /\ m_exitCode' = s.exitCode
    /\ m_hDialog' = s.hDialog
    /\ closePosted' = s.closePosted
    /\ subs' = s.subs
    /\ m_references' = s.refs
    /\ devVol' = s.vol
    /\ devMute' = s.mute
    /\ queue' = s.q

SetState(s) ==
    /\ Len(s.q) <= MaxQueue
    /\ Assign(s)

Set(s) ==
    /\ SetState(s)
    /\ UNCHANGED auxVars

----------------------------------------------------------------------------
\* The platform endpoint (IAudioEndpointVolume) as the controller uses it.

Notification(d, v, m, ctx) ==
    [src |-> d, fMasterVolume |-> v, bMuted |-> m, guidEventContext |-> ctx]

\* A volume write on endpoint d with event context ctx: the endpoint takes the
\* value and a registered subscriber is sent a notification.
SetMasterVolumeLevelScalar(s, d, v, ctx) ==
    [s EXCEPT !.vol[d] = v,
              !.q = IF d \in s.subs
                    THEN Append(s.q, Notification(d, v, s.mute[d], ctx))
                    ELSE s.q]

SetMute(s, d, m, ctx) ==
    [s EXCEPT !.mute[d] = m,
              !.q = IF d \in s.subs
                    THEN Append(s.q, Notification(d, s.vol[d], m, ctx))
                    ELSE s.q]

\* AddRef and Release of the callback object: the counter, which starts at 1.
AddRef(refs) == refs + 1
Release(refs) == refs - 1

\* A successful registration holds one reference to the callback object.
RegisterControlChangeNotify(s, d) ==
    [s EXCEPT !.subs = s.subs \cup {d}, !.refs = AddRef(s.refs)]

\* Notifications are delivered up to the point of unregistration.
UnregisterControlChangeNotify(s, d) ==
    [s EXCEPT !.subs = s.subs \ {d},
              !.refs = Release(s.refs),
              !.q = SelectSeq(s.q, LAMBDA n : n.src # d)]

----------------------------------------------------------------------------
\* The catalog: AudioDevice and the constructor of AudioDeviceManager.

\* A character is its code point, a name a sequence of characters.
towlower(c) == IF c >= 65 /\ c <= 90 THEN c + 32 ELSE c

\* _wcsicmp: the strings compared character by character, in lower case.
RECURSIVE wcsicmp(_, _)
wcsicmp(a, b) ==
    IF a = <<>> /\ b = <<>> THEN 0
    ELSE IF a = <<>> THEN -1
    ELSE IF b = <<>> THEN 1
    ELSE IF towlower(Head(a)) < towlower(Head(b)) THEN -1
    ELSE IF towlower(Head(a)) > towlower(Head(b)) THEN 1
    ELSE wcsicmp(Tail(a), Tail(b))

\* The endpoints the platform may report: "b", "A", "a" and "Ab".  Names may
\* coincide, IDs always differ.
Endpoints ==
    {[id |-> 1, name |-> <<98>>], [id |-> 2, name |-> <<65>>],
     [id |-> 3, name |-> <<97>>], [id |-> 4, name |-> <<65, 98>>]}

\* The collections EnumAudioEndpoints may return.
Collections ==
    UNION {{c \in [1 .. n -> Endpoints] : \A i, j \in 1 .. n : c[i] = c[j] => i = j} :
           n \in 0 .. MaxCollection}

AudioDevice(itemOffset, pEndpoint) ==
    [m_iItemOffset |-> itemOffset, m_wsId |-> pEndpoint.id, m_wsName |-> pEndpoint.name]

pushedBack_repeatsFirst(coll) == [i \in 1 .. Len(coll) |-> AudioDevice(i - 1, coll[1])]

\* The vector after the constructor's loop: one AudioDevice per item, in the
\* collection's order.
pushedBack(coll) == [i \in 1 .. Len(coll) |-> AudioDevice(i - 1, coll[i])]

\* The comparison the constructor sorts by.
nameLess(a, b) == wcsicmp(a.m_wsName, b.m_wsName) < 0

\* std::sort: the vector rearranged so that no element is less than one before
\* it; the order of elements that compare equal is unspecified.
stdsort(v) ==
    LET n == Len(v)
        perms == {p \in [1 .. n -> 1 .. n] : \A i, j \in 1 .. n : p[i] = p[j] => i = j}
    IN  {out \in {[i \in 1 .. n |-> v[p[i]]] : p \in perms} :
            \A i, j \in 1 .. n : i < j => ~nameLess(out[j], out[i])}

CtorFailures ==
    {"none", "EnumAudioEndpoints", "GetCount", "Item", "GetId", "OpenPropertyStore", "GetValue"}

\* The constructor from the enumeration on: fail names the platform call that
\* fails, if any, and sorted is the vector std::sort leaves.
constructor(coll, fail, sorted) ==
    IF fail = "EnumAudioEndpoints"
    THEN [what |-> "Unable to enumerate audio devices.", devices |-> <<>>]
    ELSE IF fail = "GetCount"
    THEN [what |-> "Unable to count audio devices in collection.", devices |-> <<>>]
    ELSE IF Len(coll) = 0
    THEN [what |-> "No audio devices found.", devices |-> <<>>]
    ELSE IF fail = "Item"
    THEN [what |-> "Unable to retrieve an audio endpoint.", devices |-> <<>>]
    ELSE IF fail = "GetId"
    THEN [what |-> "Unable to retrieve audio endpoint ID.", devices |-> <<>>]
    ELSE IF fail = "OpenPropertyStore"
    THEN [what |-> "Unable to open device property storage.", devices |-> <<>>]
    ELSE IF fail = "GetValue"
    THEN [what |-> "Unable to get name of audio endpoint.", devices |-> <<>>]
    ELSE IF Len(coll) # Len(sorted)
    THEN [what |-> "Unable to retrieve all audio device information.", devices |-> <<>>]
    ELSE [what |-> "", devices |-> sorted]

----------------------------------------------------------------------------
\* AudioDeviceManager.

\* getDevice: the catalog position idx, or the error it throws.
getDevice_wrapsNegative(idx) ==
    IF idx >= Len(m_audioDevices)
    THEN [ok |-> FALSE, dev |-> nullptr, what |-> "Invalid device number requested."]
    ELSE [ok |-> TRUE, dev |-> IF idx < 0 THEN 0 ELSE idx, what |-> ""]

getDevice(idx) ==
    IF idx < 0
    THEN [ok |-> FALSE, dev |-> nullptr, what |-> "Negative device number requested."]
    ELSE IF idx >= Len(m_audioDevices)
         THEN [ok |-> FALSE, dev |-> nullptr, what |-> "Invalid device number requested."]
         ELSE [ok |-> TRUE, dev |-> idx, what |-> ""]

isLinkActive == m_bLinkActive
getMasterDeviceIdx == m_iMasterDeviceIdx
getSlaveDeviceIdx == m_iSlaveDeviceIdx
getExitCode == m_exitCode

\* A faulty unlinkDevices: clears the link state and never unregisters.
unlinkDevices_keepsSubscription(s) ==
    [s EXCEPT !.active = FALSE, !.mIdx = -1, !.sIdx = -1,
              !.mVol = nullptr, !.sVol = nullptr]

\* A faulty unlinkDevices: also clears the exit code.
unlinkDevices_resetsExitCode(s) ==
    LET s1 == IF s.active /\ s.mVol # nullptr
              THEN UnregisterControlChangeNotify(s, s.mVol)
              ELSE s
    IN  [s1 EXCEPT !.active = FALSE, !.mIdx = -1, !.sIdx = -1,
                   !.mVol = nullptr, !.sVol = nullptr, !.exitCode = 0]

\* A faulty unlinkDevices: unregisters on the master handle whether or not the
\* link is active.
unlinkDevices_ignoresLinkState(s) ==
    LET s1 == IF s.mVol # nullptr
              THEN UnregisterControlChangeNotify(s, s.mVol)
              ELSE s
    IN  [s1 EXCEPT !.active = FALSE, !.mIdx = -1, !.sIdx = -1,
                   !.mVol = nullptr, !.sVol = nullptr]

\* unlinkDevices: unregister on the master handle if the link is active, then
\* clear the link state and release both handles.
unlinkDevices(s) ==
    LET s1 == IF s.active /\ s.mVol # nullptr
              THEN UnregisterControlChangeNotify(s, s.mVol)
              ELSE s
    IN  [s1 EXCEPT !.active = FALSE, !.mIdx = -1, !.sIdx = -1,
                   !.mVol = nullptr, !.sVol = nullptr]

\* The binary expansion of a number below 2^23: m holds the bits so far, r the
\* rest in thousandths of the last bit, e the number of bits after the point;
\* it ends with 24 significant bits.
RECURSIVE mantissa(_, _, _)
mantissa(m, r, e) ==
    IF m >= 2^23 THEN [m |-> m, r |-> r, e |-> e]
    ELSE mantissa((2 * m) + (IF 2 * r >= 1000 THEN 1 ELSE 0), (2 * r) % 1000, e + 1)

\* float: the single-precision value nearest to v thousandths (ties to the even
\* mantissa), as sign * m / 2^e.
Float32(v) ==
    IF v = 0 THEN [sign |-> 1, m |-> 0, e |-> 0]
    ELSE LET a == IF v < 0 THEN -v ELSE v
             x == mantissa(a \div 1000, a % 1000, 0)
             up == (2 * x.r > 1000) \/ (2 * x.r = 1000 /\ x.m % 2 = 1)
             sign == IF v < 0 THEN -1 ELSE 1
         IN  IF ~up THEN [sign |-> sign, m |-> x.m, e |-> x.e]
             ELSE IF x.m + 1 = 2^24 THEN [sign |-> sign, m |-> 2^23, e |-> x.e - 1]
             ELSE [sign |-> sign, m |-> x.m + 1, e |-> x.e]

\* static_cast<ptrdiff_t>((static_cast<double>(MAX_VOL) * f) + 0.5): the product
\* and the sum are exact in double precision, the cast drops the fraction.
castToInteger(f) ==
    LET p == MAX_VOL * f.m
        floorOfSum ==
            IF f.e >= 32 THEN 0
            ELSE IF f.e = 31 THEN (IF p >= 2^30 THEN 1 ELSE 0)
            ELSE IF f.e = 0 THEN p
            ELSE (p \div 2^(f.e)) + (IF p % 2^(f.e) >= 2^(f.e - 1) THEN 1 ELSE 0)
    IN  IF f.sign = 1 THEN floorOfSum
        ELSE IF floorOfSum = 0 THEN 0 ELSE 1 - floorOfSum

\* A faulty slider position: the fraction is dropped without adding the half.
SliderPos_dropsFraction(v) ==
    LET f == Float32(v)
        truncated == IF f.e >= 31 THEN 0 ELSE f.sign * ((MAX_VOL * f.m) \div 2^(f.e))
    IN  IF truncated < 0 THEN 0
        ELSE IF truncated > MAX_VOL THEN MAX_VOL ELSE truncated

\* Slider position for the float named by v thousandths.
SliderPos(v) ==
    LET rounded == castToInteger(Float32(v))
    IN  IF rounded < 0 THEN 0
        ELSE IF rounded > MAX_VOL THEN MAX_VOL ELSE rounded

\* _updateDialog: the messages posted to the dialog's controls (none without a dialog).
updateDialog(s, fVolume, bM) ==
    IF s.hDialog = 0 THEN <<>>
    ELSE <<[vol |-> fVolume, mute |-> bM, slider |-> SliderPos(fVolume)]>>

\* A faulty _setSlaveVolume: writes the volume and leaves the mute state alone.
setSlaveVolume_skipsMute(s, fVolume, bM, fail) ==
    IF s.sVol = nullptr THEN [s |-> s, success |-> TRUE, w |-> <<>>]
    ELSE LET okV == fail # "SetMasterVolumeLevelScalar"
             wv == [dev |-> s.sVol, kind |-> "volume", val |-> fVolume, ok |-> okV]
         IN  IF ~okV THEN [s |-> s, success |-> FALSE, w |-> <<wv>>]
             ELSE [s |-> SetMasterVolumeLevelScalar(s, s.sVol, fVolume, ProcessGUID),
                   success |-> TRUE, w |-> <<wv>>]

\* A faulty _setSlaveVolume: writes the mute state even if the volume write failed.
setSlaveVolume_writesMuteAnyway(s, fVolume, bM, fail) ==
    IF s.sVol = nullptr THEN [s |-> s, success |-> TRUE, w |-> <<>>]
    ELSE LET okV == fail # "SetMasterVolumeLevelScalar"
             okM == fail # "SetMute"
             wv == [dev |-> s.sVol, kind |-> "volume", val |-> fVolume, ok |-> okV]
             wm == [dev |-> s.sVol, kind |-> "mute", val |-> IF bM THEN 1 ELSE 0, ok |-> okM]
             s1 == IF okV THEN SetMasterVolumeLevelScalar(s, s.sVol, fVolume, ProcessGUID) ELSE s
             s2 == IF okM THEN SetMute(s1, s.sVol, bM, ProcessGUID) ELSE s1
         IN  [s |-> s2, success |-> okV /\ okM, w |-> <<wv, wm>>]

\* _setSlaveVolume: volume first, mute second; fail names the platform write
\* that fails, if any.
setSlaveVolume(s, fVolume, bM, fail) ==
    IF s.sVol = nullptr THEN [s |-> s, success |-> TRUE, w |-> <<>>]
    ELSE LET okV == fail # "SetMasterVolumeLevelScalar"
             okM == fail # "SetMute"
             wv == [dev |-> s.sVol, kind |-> "volume", val |-> fVolume, ok |-> okV]
             wm == [dev |-> s.sVol, kind |-> "mute", val |-> IF bM THEN 1 ELSE 0, ok |-> okM]
             s1 == SetMasterVolumeLevelScalar(s, s.sVol, fVolume, ProcessGUID)
             s2 == SetMute(s1, s.sVol, bM, ProcessGUID)
         IN  IF ~okV THEN [s |-> s, success |-> FALSE, w |-> <<wv>>]
             ELSE IF ~okM THEN [s |-> s1, success |-> FALSE, w |-> <<wv, wm>>]
             ELSE [s |-> s2, success |-> TRUE, w |-> <<wv, wm>>]

\* A faulty linkDevices: records its two arguments the wrong way round.
linkOpen_swapsIndices(s, mi, si, fail) ==
    LET s0 == unlinkDevices(s)
        s1 == [s0 EXCEPT !.mVol = getDevice(mi).dev]
        s2 == [s1 EXCEPT !.sVol = getDevice(si).dev]
        s3 == RegisterControlChangeNotify(s2, s2.mVol)
        s4 == [s3 EXCEPT !.active = TRUE, !.mIdx = si, !.sIdx = mi]
    IN  IF mi = si THEN [s |-> s0, err |-> "SelfLink"]
        ELSE IF ~getDevice(mi).ok \/ ~getDevice(si).ok THEN [s |-> s0, err |-> "InvalidIndex"]
        ELSE IF fail = "activateMaster" THEN [s |-> s0, err |-> "Activation"]
        ELSE IF fail = "activateSlave" THEN [s |-> s1, err |-> "Activation"]
        ELSE IF fail = "register" THEN [s |-> s2, err |-> "Subscription"]
        ELSE [s |-> s4, err |-> ""]

\* A faulty linkDevices: does not refuse to link a device to itself.
linkOpen_allowsSelfLink(s, mi, si, fail) ==
    LET s0 == unlinkDevices(s)
        s1 == [s0 EXCEPT !.mVol = getDevice(mi).dev]
        s2 == [s1 EXCEPT !.sVol = getDevice(si).dev]
        s3 == RegisterControlChangeNotify(s2, s2.mVol)
        s4 == [s3 EXCEPT !.active = TRUE, !.mIdx = mi, !.sIdx = si]
    IN  IF ~getDevice(mi).ok \/ ~getDevice(si).ok THEN [s |-> s0, err |-> "InvalidIndex"]
        ELSE IF fail = "activateMaster" THEN [s |-> s0, err |-> "Activation"]
        ELSE IF fail = "activateSlave" THEN [s |-> s1, err |-> "Activation"]
        ELSE IF fail = "register" THEN [s |-> s2, err |-> "Subscription"]
        ELSE [s |-> s4, err |-> ""]

\* A faulty linkDevices: does not break the existing link first.
linkOpen_keepsOldLink(s, mi, si, fail) ==
    LET s1 == [s EXCEPT !.mVol = getDevice(mi).dev]
        s2 == [s1 EXCEPT !.sVol = getDevice(si).dev]
        s3 == RegisterControlChangeNotify(s2, s2.mVol)
        s4 == [s3 EXCEPT !.active = TRUE, !.mIdx = mi, !.sIdx = si]
    IN  IF mi = si THEN [s |-> s, err |-> "SelfLink"]
        ELSE IF ~getDevice(mi).ok \/ ~getDevice(si).ok THEN [s |-> s, err |-> "InvalidIndex"]
        ELSE IF fail = "activateMaster" THEN [s |-> s, err |-> "Activation"]
        ELSE IF fail = "activateSlave" THEN [s |-> s1, err |-> "Activation"]
        ELSE IF fail = "register" THEN [s |-> s2, err |-> "Subscription"]
        ELSE [s |-> s4, err |-> ""]

\* A faulty linkDevices: breaks the existing link only once its arguments have
\* passed the checks.
linkOpen_unlinksAfterChecks(s, mi, si, fail) ==
    LET s0 == unlinkDevices(s)
        s1 == [s0 EXCEPT !.mVol = getDevice(mi).dev]
        s2 == [s1 EXCEPT !.sVol = getDevice(si).dev]
        s3 == RegisterControlChangeNotify(s2, s2.mVol)
        s4 == [s3 EXCEPT !.active = TRUE, !.mIdx = mi, !.sIdx = si]
    IN  IF mi = si THEN [s |-> s, err |-> "SelfLink"]
        ELSE IF ~getDevice(mi).ok \/ ~getDevice(si).ok THEN [s |-> s, err |-> "InvalidIndex"]
        ELSE IF fail = "activateMaster" THEN [s |-> s0, err |-> "Activation"]
        ELSE IF fail = "activateSlave" THEN [s |-> s1, err |-> "Activation"]
        ELSE IF fail = "register" THEN [s |-> s2, err |-> "Subscription"]
        ELSE [s |-> s4, err |-> ""]

\* A faulty linkDevices: resolves the indices before it compares them.
linkOpen_resolvesFirst(s, mi, si, fail) ==
    LET s0 == unlinkDevices(s)
        s1 == [s0 EXCEPT !.mVol = getDevice(mi).dev]
        s2 == [s1 EXCEPT !.sVol = getDevice(si).dev]
        s3 == RegisterControlChangeNotify(s2, s2.mVol)
        s4 == [s3 EXCEPT !.active = TRUE, !.mIdx = mi, !.sIdx = si]
    IN  IF ~getDevice(mi).ok \/ ~getDevice(si).ok THEN [s |-> s0, err |-> "InvalidIndex"]
        ELSE IF mi = si THEN [s |-> s0, err |-> "SelfLink"]
        ELSE IF fail = "activateMaster" THEN [s |-> s0, err |-> "Activation"]
        ELSE IF fail = "activateSlave" THEN [s |-> s1, err |-> "Activation"]
        ELSE IF fail = "register" THEN [s |-> s2, err |-> "Subscription"]
        ELSE [s |-> s4, err |-> ""]

\* A faulty linkDevices: registers the callback on the slave as well.
linkOpen_subscribesSlave(s, mi, si, fail) ==
    LET s0 == unlinkDevices(s)
        s1 == [s0 EXCEPT !.mVol = getDevice(mi).dev]
        s2 == [s1 EXCEPT !.sVol = getDevice(si).dev]
        s3 == RegisterControlChangeNotify(RegisterControlChangeNotify(s2, s2.mVol), s2.sVol)
        s4 == [s3 EXCEPT !.active = TRUE, !.mIdx = mi, !.sIdx = si]
    IN  IF mi = si THEN [s |-> s0, err |-> "SelfLink"]
        ELSE IF ~getDevice(mi).ok \/ ~getDevice(si).ok THEN [s |-> s0, err |-> "InvalidIndex"]
        ELSE IF fail = "activateMaster" THEN [s |-> s0, err |-> "Activation"]
        ELSE IF fail = "activateSlave" THEN [s |-> s1, err |-> "Activation"]
        ELSE IF fail = "register" THEN [s |-> s2, err |-> "Subscription"]
        ELSE [s |-> s4, err |-> ""]

\* linkDevices from its start to the point where the link is marked active:
\* fail names the platform call that fails, if any.
linkOpen(s, mi, si, fail) ==
    LET s0 == unlinkDevices(s)
        s1 == [s0 EXCEPT !.mVol = getDevice(mi).dev]
        s2 == [s1 EXCEPT !.sVol = getDevice(si).dev]
        s3 == RegisterControlChangeNotify(s2, s2.mVol)
        s4 == [s3 EXCEPT !.active = TRUE, !.mIdx = mi, !.sIdx = si]
    IN  IF mi = si THEN [s |-> s0, err |-> "SelfLink"]
        ELSE IF ~getDevice(mi).ok \/ ~getDevice(si).ok THEN [s |-> s0, err |-> "InvalidIndex"]
        ELSE IF fail = "activateMaster" THEN [s |-> s0, err |-> "Activation"]
        ELSE IF fail = "activateSlave" THEN [s |-> s1, err |-> "Activation"]
        ELSE IF fail = "register" THEN [s |-> s2, err |-> "Subscription"]
        ELSE [s |-> s4, err |-> ""]

\* A faulty linkDevices: throws without tearing the link down.
linkFinish_noRollback(s, fail) ==
    LET bMuted == s.mute[s.mVol]
        fMasterVolume == s.vol[s.mVol]
        r == setSlaveVolume(s, fMasterVolume, bMuted, fail)
    IN  IF fail \in {"GetMute", "GetMasterVolumeLevelScalar"}
        THEN [s |-> s, err |-> "StateRead", w |-> <<>>, sig |-> <<>>]
        ELSE IF ~r.success
        THEN [s |-> r.s, err |-> "Sync", w |-> r.w, sig |-> <<>>]
        ELSE [s |-> r.s, err |-> "", w |-> r.w,
              sig |-> updateDialog(r.s, fMasterVolume, bMuted)]

\* A faulty linkDevices: updates the dialog before it syncs the slave.
linkFinish_updatesDialogFirst(s, fail) ==
    LET bMuted == s.mute[s.mVol]
        fMasterVolume == s.vol[s.mVol]
        r == setSlaveVolume(s, fMasterVolume, bMuted, fail)
    IN  IF fail \in {"GetMute", "GetMasterVolumeLevelScalar"}
        THEN [s |-> unlinkDevices(s), err |-> "StateRead", w |-> <<>>, sig |-> <<>>]
        ELSE IF ~r.success
        THEN [s |-> unlinkDevices(r.s), err |-> "Sync", w |-> r.w,
              sig |-> updateDialog(s, fMasterVolume, bMuted)]
        ELSE [s |-> r.s, err |-> "", w |-> r.w,
              sig |-> updateDialog(r.s, fMasterVolume, bMuted)]

\* The rest of linkDevices: read the master's state, sync the slave, update the dialog.
linkFinish(s, fail) ==
    LET bMuted == s.mute[s.mVol]
        fMasterVolume == s.vol[s.mVol]
        r == setSlaveVolume(s, fMasterVolume, bMuted, fail)
    IN  IF fail \in {"GetMute", "GetMasterVolumeLevelScalar"}
        THEN [s |-> unlinkDevices(s), err |-> "StateRead", w |-> <<>>, sig |-> <<>>]
        ELSE IF ~r.success
        THEN [s |-> unlinkDevices(r.s), err |-> "Sync", w |-> r.w, sig |-> <<>>]
        ELSE [s |-> r.s, err |-> "", w |-> r.w,
              sig |-> updateDialog(r.s, fMasterVolume, bMuted)]

setDialog(s, hDlg) == [s EXCEPT !.hDialog = hDlg]

\* A faulty setMasterVolume: gives the link up when the write fails.
setMasterVolume_unlinksOnFailure(s, fVolume, ok) ==
    IF s.mVol = nullptr THEN [s |-> s, ret |-> TRUE]
    ELSE IF ~ok THEN [s |-> unlinkDevices(s), ret |-> FALSE]
    ELSE [s |-> SetMasterVolumeLevelScalar(s, s.mVol, fVolume, ProcessGUID), ret |-> TRUE]

\* setMasterVolume / setMasterMute: ok is the platform's answer to the write.
setMasterVolume(s, fVolume, ok) ==
    IF s.mVol = nullptr THEN [s |-> s, ret |-> TRUE]
    ELSE IF ~ok THEN [s |-> s, ret |-> FALSE]
    ELSE [s |-> SetMasterVolumeLevelScalar(s, s.mVol, fVolume, ProcessGUID), ret |-> TRUE]

setMasterMute(s, bM, ok) ==
    IF s.mVol = nullptr THEN [s |-> s, ret |-> TRUE]
    ELSE IF ~ok THEN [s |-> s, ret |-> FALSE]
    ELSE [s |-> SetMute(s, s.mVol, bM, ProcessGUID), ret |-> TRUE]

\* A faulty guard: looks at the handles and not at the link flag.
HandlerGuard_ignoresLinkFlag(s) == s.mVol # nullptr /\ s.sVol # nullptr

\* The guard at the top of _onVolumeCallback.
HandlerGuard(s) == s.active /\ s.mVol # nullptr /\ s.sVol # nullptr

\* A faulty handler: updates the dialog whoever sent the event.
SignalsObserver_always(ctx) == TRUE

\* Whether the handler updates the dialog for an event with context ctx.
SignalsObserver(ctx) == ctx # ProcessGUID

\* Whether the handler reports a failed relay to the host.
ReportsFatal(s, success) == ~success /\ s.hDialog # 0

\* A faulty handler: does not relay the changes the program made itself.
onVolumeCallback_ignoresOwnChanges(s, n, fail) ==
    IF ~HandlerGuard(s) \/ n.guidEventContext = ProcessGUID
    THEN [s |-> s, res |-> "ignored", w |-> <<>>, sig |-> <<>>, fat |-> FALSE]
    ELSE LET sig == updateDialog(s, n.fMasterVolume, n.bMuted)
             r == setSlaveVolume(s, n.fMasterVolume, n.bMuted, fail)
             fat == ReportsFatal(r.s, r.success)
         IN  [s |-> IF fat THEN [r.s EXCEPT !.exitCode = 1, !.closePosted = TRUE] ELSE r.s,
              res |-> IF r.success THEN "relayed" ELSE "relayFailed",
              w |-> r.w, sig |-> sig, fat |-> fat]

\* A faulty handler: tries the relay a second time when it has failed.
onVolumeCallback_retries(s, n, fail) ==
    IF ~HandlerGuard(s)
    THEN [s |-> s, res |-> "ignored", w |-> <<>>, sig |-> <<>>, fat |-> FALSE]
    ELSE LET sig == IF SignalsObserver(n.guidEventContext)
                    THEN updateDialog(s, n.fMasterVolume, n.bMuted)
                    ELSE <<>>
             r1 == setSlaveVolume(s, n.fMasterVolume, n.bMuted, fail)
             r2 == setSlaveVolume(r1.s, n.fMasterVolume, n.bMuted, fail)
             r == IF r1.success THEN r1
                  ELSE [s |-> r2.s, success |-> r2.success, w |-> r1.w \o r2.w]
             fat == ReportsFatal(r.s, r.success)
         IN  [s |-> IF fat THEN [r.s EXCEPT !.exitCode = 1, !.closePosted = TRUE] ELSE r.s,
              res |-> IF r.success THEN "relayed" ELSE "relayFailed",
              w |-> r.w, sig |-> sig, fat |-> fat]

\* _onVolumeCallback for notification n.
onVolumeCallback(s, n, fail) ==
    IF ~HandlerGuard(s)
    THEN [s |-> s, res |-> "ignored", w |-> <<>>, sig |-> <<>>, fat |-> FALSE]
    ELSE LET sig == IF SignalsObserver(n.guidEventContext)
                    THEN updateDialog(s, n.fMasterVolume, n.bMuted)
                    ELSE <<>>
             r == setSlaveVolume(s, n.fMasterVolume, n.bMuted, fail)
             fat == ReportsFatal(r.s, r.success)
         IN  [s |-> IF fat THEN [r.s EXCEPT !.exitCode = 1, !.closePosted = TRUE] ELSE r.s,
              res |-> IF r.success THEN "relayed" ELSE "relayFailed",
              w |-> r.w, sig |-> sig, fat |-> fat]

----------------------------------------------------------------------------
\* Observations of the step just taken.
Obs(op, res, n, w, sig, fat) ==
    /\ lastOp' = op
    /\ result' = res
    /\ pNotify' = n
    /\ written' = w
    /\ signal' = sig
    /\ fatal' = fat

\* Outside linkDevices its arguments and observations are not kept.
NoCall ==
    /\ pc' = "idle"
    /\ masterIdx' = -1
    /\ slaveIdx' = -1
    /\ pre' = <<>>
    /\ prevMaster' = -1
    /\ prevSlave' = -1

\* The controller as its constructor leaves it, over the endpoints' state.
Constructed ==
    /\ subs = {}
    /\ m_references = 1
    /\ queue = <<>>
    /\ m_exitCode = 0
    /\ m_hDialog = 0
    /\ m_bLinkActive = FALSE
    /\ m_iMasterDeviceIdx = -1
    /\ m_iSlaveDeviceIdx = -1
    /\ m_pMasterEndptVol = nullptr
    /\ m_pSlaveEndptVol = nullptr
    /\ closePosted = FALSE
    /\ pc = "idle"
    /\ masterIdx = -1
    /\ slaveIdx = -1
    /\ pre = <<>>
    /\ prevMaster = -1
    /\ prevSlave = -1
    /\ lastOp = "construct"
    /\ result = "ok"
    /\ pNotify = <<>>
    /\ written = <<>>
    /\ signal = <<>>
    /\ fatal = FALSE

\* The registry values of the program: a device identifier (EmptyId is the
\* empty string, 1 and 2 are the identifiers of the catalog's devices, 3 that
\* of a device that is not plugged in), a DWORD, or NoValue if the value is missing.
NoValue == -1
EmptyId == 0
SavedIds == {EmptyId, 1, 2, 3}
NoSettings == [MasterDevice |-> NoValue, SlaveDevice |-> NoValue, LinkActive |-> NoValue]
Registries ==
    {NoSettings, [MasterDevice |-> 2, SlaveDevice |-> 1, LinkActive |-> NoValue]}
    \cup [MasterDevice : SavedIds, SlaveDevice : SavedIds, LinkActive : {0, 1}]

\* The callback object as the controller's constructor leaves it: the lambda
\* that calls _onVolumeCallback is registered.
CallbackIdle ==
    /\ m_externalCallback = "returns"
    /\ invocations = <<>>
    /\ propagated = FALSE

\* The volume controls as WM_INITDIALOG leaves them while nothing is linked.
ControlsIdle ==
    /\ muteChecked = FALSE
    /\ posted = <<>>
    /\ iVolume = <<>>

\* The host with its dialog shown, nothing stored and nothing changed by the user.
DialogShown ==
    /\ registry = NoSettings
    /\ registry0 = NoSettings
    /\ g_optForceLink = FALSE
    /\ g_saveChanges = FALSE
    /\ g_hDlg = 1
    /\ g_deviceManager = TRUE
    /\ masterSel = -1
    /\ slaveSel = -1
    /\ hostPc = "running"
    /\ boxOpen = FALSE
    /\ attempted = FALSE
    /\ settings = <<>>
    /\ errorBox = FALSE
    /\ manual = FALSE

\* The constructor has built the catalog of two endpoints, "A" and "b".
CatalogBuilt ==
    /\ collection = <<[id |-> 1, name |-> <<98>>], [id |-> 2, name |-> <<65>>]>>
    /\ m_audioDevices \in stdsort(pushedBack(collection))
    /\ ctorError = ""
    /\ lookup = <<>>

\* Nothing was posted to the slider yet.
SliderIdle ==
    /\ fScalar = 0
    /\ sliderVolume = <<>>

Procs == 1 .. NumProcs

\* One process of the program has passed the single-instance guard and
\* constructed the controller; no other was started.
OneInstance ==
    /\ ppc = [p \in Procs |-> IF p = 1 THEN "running" ELSE "notStarted"]
    /\ mutexHandles = {1}
    /\ managers = {1}
    /\ enumerated = {1}
    /\ exitCodes = [p \in Procs |-> <<>>]

Init ==
    /\ devVol \in [Devices -> Volumes]
    /\ devMute \in [Devices -> BOOLEAN]
    /\ Constructed
    /\ DialogShown
    /\ CatalogBuilt
    /\ SliderIdle
    /\ ControlsIdle
    /\ CallbackIdle
    /\ OneInstance

\* linkDevices(mi, si) is called and runs until it throws or has marked the link active.
LinkBegin(mi, si) ==
    /\ pc = "idle"
    /\ \E fail \in IF linkOpen(St, mi, si, "none").err = "" THEN OpenFailures ELSE {"none"} :
         \E r \in {linkOpen(St, mi, si, fail)} :
             /\ Set(r.s)
             /\ pc' = IF r.err = "" THEN "registered" ELSE "idle"
             /\ Obs("linkDevices", IF r.err = "" THEN "pending" ELSE r.err,
                    <<>>, <<>>, <<>>, FALSE)
    /\ masterIdx' = mi
    /\ slaveIdx' = si
    /\ pre' = IF mi \in Devices THEN <<devVol[mi], devMute[mi]>> ELSE <<>>
    /\ prevMaster' = m_iMasterDeviceIdx
    /\ prevSlave' = m_iSlaveDeviceIdx

\* linkDevices runs from there to its end.
LinkFinish ==
    /\ pc = "registered"
    /\ \E fail \in FinishFailures :
         \E r \in {linkFinish(St, fail)} :
             /\ Set(r.s)
             /\ Obs("linkDevices", IF r.err = "" THEN "ok" ELSE r.err,
                    <<>>, r.w, r.sig, FALSE)
    /\ pc' = "idle"
    /\ UNCHANGED <<masterIdx, slaveIdx, pre, prevMaster, prevSlave>>

\* unlinkDevices() called by the host.
UnlinkDevices ==
    /\ pc = "idle"
    /\ \E s \in {unlinkDevices(St)} : Set(s)
    /\ Obs("unlinkDevices", "ok", <<>>, <<>>, <<>>, FALSE)
    /\ pc' = "idle"
    /\ masterIdx' = -1
    /\ slaveIdx' = -1
    /\ pre' = <<>>
    /\ prevMaster' = m_iMasterDeviceIdx
    /\ prevSlave' = m_iSlaveDeviceIdx

\* setDialog(hDlg, ...): hDlg is a window handle (1) or NULL (0).
SetDialog(hDlg) ==
    /\ pc = "idle"
    /\ \E s \in {setDialog(St, hDlg)} : Set(s)
    /\ Obs("setDialog", "ok", <<>>, <<>>, <<>>, FALSE)
    /\ NoCall

SetMasterVolume(fVolume) ==
    /\ pc = "idle"
    /\ \E ok \in IF m_pMasterEndptVol = nullptr THEN {TRUE} ELSE BOOLEAN :
         \E r \in {setMasterVolume(St, fVolume, ok)} :
             /\ Set(r.s)
             /\ Obs("setMasterVolume", IF r.ret THEN "true" ELSE "false",
                    <<>>, <<>>, <<>>, FALSE)
    /\ NoCall

SetMasterMute(bM) ==
    /\ pc = "idle"
    /\ \E ok \in IF m_pMasterEndptVol = nullptr THEN {TRUE} ELSE BOOLEAN :
         \E r \in {setMasterMute(St, bM, ok)} :
             /\ Set(r.s)
             /\ Obs("setMasterMute", IF r.ret THEN "true" ELSE "false",
                    <<>>, <<>>, <<>>, FALSE)
    /\ NoCall

\* Another application (or a hardware key) changes the volume of endpoint d.
ExternalVolume(d, v) ==
    /\ pc = "idle"
    /\ \E s \in {SetMasterVolumeLevelScalar(St, d, v, OtherGUID)} : Set(s)
    /\ Obs("external", "ok", <<>>, <<>>, <<>>, FALSE)
    /\ NoCall

\* Another application (or a hardware key) changes the mute state of endpoint d.
ExternalMute(d, m) ==
    /\ pc = "idle"
    /\ \E s \in {SetMute(St, d, m, OtherGUID)} : Set(s)
    /\ Obs("external", "ok", <<>>, <<>>, <<>>, FALSE)
    /\ NoCall

\* A faulty Dlg_UnlinkDevices: leaves the link alone.
Dlg_UnlinkDevices_skips(s) == s

\* Dlg_UnlinkDevices (main.cpp): unlink if a link is active.
Dlg_UnlinkDevices(s) == IF s.active THEN unlinkDevices(s) ELSE s

----------------------------------------------------------------------------
\* The host (main.cpp): the dialog procedure, the stored settings and the ways
\* out of wWinMain.

\* WM_INITDIALOG reads the stored settings: all three or, if the key cannot be
\* opened (opened is FALSE) or a value is missing, the defaults.
readSettings(reg, opened) ==
    IF ~opened \/ reg.LinkActive = NoValue \/ reg.MasterDevice = NoValue
               \/ reg.SlaveDevice = NoValue
    THEN [linkActive |-> FALSE, masterDeviceId |-> EmptyId, slaveDeviceId |-> EmptyId]
    ELSE [linkActive |-> reg.LinkActive = 1,
          masterDeviceId |-> reg.MasterDevice, slaveDeviceId |-> reg.SlaveDevice]

\* The loop of WM_INITDIALOG over the catalog: the offset of the last device
\* whose identifier is the non-empty id, -1 if there is none.
savedIndex(id) ==
    LET hits == {k \in 1 .. Len(m_audioDevices) :
                    m_audioDevices[k].m_wsId = id /\ id # EmptyId}
    IN  IF hits = {} THEN -1
        ELSE (CHOOSE k \in hits : \A l \in hits : l <= k) - 1

\* A faulty startup: /link does not count.
autoLinks_ignoresForceLink(linkActive, forceLink, mi, si) ==
    linkActive /\ mi >= 0 /\ si >= 0

\* The condition under which WM_INITDIALOG links the devices.
autoLinks(linkActive, forceLink, mi, si) ==
    (linkActive \/ forceLink) /\ mi >= 0 /\ si >= 0

\* A host step that does not call linkDevices and leaves the controller in s.
NotAttempted(s) ==
    [s |-> s, attempted |-> FALSE, err |-> "", box |-> FALSE, w |-> <<>>, sig |-> <<>>]

\* A faulty Dlg_LinkDevices: passes the two selections the wrong way round.
Dlg_LinkDevices_swapsSelections(s, mSel, sSel, showErrors, f1, f2) ==
    IF mSel < 0 \/ sSel < 0 THEN NotAttempted(Dlg_UnlinkDevices(s))
    ELSE LET a == linkOpen(s, sSel, mSel, f1)
             b == linkFinish(a.s, f2)
         IN  IF a.err # ""
             THEN [s |-> a.s, attempted |-> TRUE, err |-> a.err, box |-> showErrors,
                   w |-> <<>>, sig |-> <<>>]
             ELSE [s |-> b.s, attempted |-> TRUE, err |-> b.err,
                   box |-> showErrors /\ b.err # "", w |-> b.w, sig |-> b.sig]

\* Dlg_LinkDevices(showErrors) with the dropdowns at mSel and sSel; f1 and f2
\* are where the platform fails the linkDevices call.
Dlg_LinkDevices(s, mSel, sSel, showErrors, f1, f2) ==
    IF mSel < 0 \/ sSel < 0 THEN NotAttempted(Dlg_UnlinkDevices(s))
    ELSE LET a == linkOpen(s, mSel, sSel, f1)
             b == linkFinish(a.s, f2)
         IN  IF a.err # ""
             THEN [s |-> a.s, attempted |-> TRUE, err |-> a.err, box |-> showErrors,
                   w |-> <<>>, sig |-> <<>>]
             ELSE [s |-> b.s, attempted |-> TRUE, err |-> b.err,
                   box |-> showErrors /\ b.err # "", w |-> b.w, sig |-> b.sig]

\* Where the registry may fail Dlg_SaveSettings: at opening the key or at
\* writing one of the values.
SaveFailures == {"none", "RegKey", "MasterDevice", "SlaveDevice", "LinkActive"}

\* The identifier Dlg_SaveSettings stores for the dropdown selection sel.
selectedId(sel) ==
    LET r == getDevice(sel)
    IN  IF r.ok THEN m_audioDevices[r.dev + 1].m_wsId ELSE EmptyId

\* A faulty Dlg_SaveSettings: saves whether or not the user changed anything.
Dlg_SaveSettings_always(reg, save, hDlg, s, mSel, sSel, fail) ==
    IF hDlg = 0 THEN [reg |-> reg, save |-> save]
    ELSE LET linkActive == s.active /\ getDevice(mSel).ok /\ getDevice(sSel).ok
             r1 == [reg EXCEPT !.MasterDevice = selectedId(mSel)]
             r2 == [r1 EXCEPT !.SlaveDevice = selectedId(sSel)]
             r3 == [r2 EXCEPT !.LinkActive = IF linkActive THEN 1 ELSE 0]
         IN  CASE fail \in {"RegKey", "MasterDevice"} -> [reg |-> reg, save |-> save]
               [] fail = "SlaveDevice" -> [reg |-> r1, save |-> save]
               [] fail = "LinkActive" -> [reg |-> r2, save |-> save]
               [] OTHER -> [reg |-> r3, save |-> FALSE]

\* Dlg_SaveSettings: the registry and g_saveChanges it leaves.
Dlg_SaveSettings(reg, save, hDlg, s, mSel, sSel, fail) ==
    IF hDlg = 0 \/ ~save THEN [reg |-> reg, save |-> save]
    ELSE LET linkActive == s.active /\ getDevice(mSel).ok /\ getDevice(sSel).ok
             r1 == [reg EXCEPT !.MasterDevice = selectedId(mSel)]
             r2 == [r1 EXCEPT !.SlaveDevice = selectedId(sSel)]
             r3 == [r2 EXCEPT !.LinkActive = IF linkActive THEN 1 ELSE 0]
         IN  CASE fail \in {"RegKey", "MasterDevice"} -> [reg |-> reg, save |-> save]
               [] fail = "SlaveDevice" -> [reg |-> r1, save |-> save]
               [] fail = "LinkActive" -> [reg |-> r2, save |-> save]
               [] OTHER -> [reg |-> r3, save |-> FALSE]

\* A faulty destructor: does not break the link.
destructor_keepsLink(s) == s

\* ~AudioDeviceManager: the link is broken before the members are released.
destructor(s) == unlinkDevices(s)

\* ExitCleanup: g_deviceManager.reset() destroys the controller if there is one.
ExitCleanup(s, manager) == IF manager THEN destructor(s) ELSE s

\* A faulty end of the fatal report: the close request reaches a dialog
\* whether or not its window still exists.
PostMessage_reachesDestroyedWindow(s, hWnd) ==
    [s EXCEPT !.closePosted = @ \/ s.hDialog # 0]

\* PostMessage(m_hDialog, WM_CLOSE, 0, 0) at the end of the handler's fatal
\* report: the message is queued if the window (hWnd, 0 once destroyed) exists.
PostMessage(s, hWnd) ==
    [s EXCEPT !.closePosted = @ \/ (s.hDialog # 0 /\ hWnd # 0)]

\* A faulty shutdown: breaks the link before it saves the settings.
SaveAndUnlink_unlinksFirst(reg, save, hDlg, s, mSel, sSel, fail) ==
    [saved |-> Dlg_SaveSettings(reg, save, hDlg, Dlg_UnlinkDevices(s), mSel, sSel, fail),
     s |-> Dlg_UnlinkDevices(s)]

\* The first two calls of WM_CLOSE and of WM_ENDSESSION: Dlg_SaveSettings,
\* then Dlg_UnlinkDevices.
SaveAndUnlink(reg, save, hDlg, s, mSel, sSel, fail) ==
    [saved |-> Dlg_SaveSettings(reg, save, hDlg, s, mSel, sSel, fail),
     s |-> Dlg_UnlinkDevices(s)]

\* What a step of the host leaves alone; the volume controls of the dialog
\* are followed where the slider is (ScrollSpec).
notHost == <<catalogVars, sliderVars, instanceVars, controlVars, callbackVars, registry0, g_optForceLink>>

\* The dialog handles WM_CLOSE, posted by the handler's fatal report or by the
\* user closing the window: it saves the settings, breaks any link, destroys
\* the window and posts the quit message with the controller's exit code.
WmClose ==
    /\ pc = "idle"
    /\ hostPc = "running"
    /\ \E fail \in IF g_saveChanges THEN SaveFailures ELSE {"none"} :
         \E r \in {SaveAndUnlink(registry, g_saveChanges, g_hDlg, St,
                                 masterSel, slaveSel, fail)} :
             /\ registry' = r.saved.reg
             /\ g_saveChanges' = r.saved.save
             /\ SetState([r.s EXCEPT !.closePosted = FALSE])
    /\ g_hDlg' = 0
    /\ hostPc' = "quitPosted"
    /\ attempted' = FALSE
    /\ settings' = <<>>
    /\ errorBox' = FALSE
    /\ UNCHANGED <<notHost, g_deviceManager, masterSel, slaveSel, boxOpen, manual>>
    /\ Obs("WM_CLOSE", IF getExitCode = 0 THEN "exit0" ELSE "exit1",
           <<>>, <<>>, <<>>, FALSE)
    /\ pc' = "closed"
    /\ masterIdx' = -1
    /\ slaveIdx' = -1
    /\ pre' = <<>>
    /\ prevMaster' = m_iMasterDeviceIdx
    /\ prevSlave' = m_iSlaveDeviceIdx

\* The handler runs on notification n, n taken off the queue.
Handle(s, n) ==
    \E fail \in IF HandlerGuard(s) THEN RelayFailures ELSE {"none"} :
        \E r \in {onVolumeCallback(s, n, fail)} :
            /\ Set(r.s)
            /\ Obs("onVolumeCallback", r.res, <<n>>, r.w, r.sig, r.fat)

\* OnNotify: the platform delivers the oldest notification of a registered endpoint.
OnNotify ==
    /\ pc = "idle"
    /\ queue # <<>>
    /\ Handle([St EXCEPT !.q = Tail(queue)], Head(queue))
    /\ NoCall

\* OnNotify reaches the callback object while it is registered nowhere (a
\* notification arriving during or after teardown).
LateNotify(v, m, ctx) ==
    /\ pc = "idle"
    /\ subs = {}
    /\ Handle(St, Notification(nullptr, v, m, ctx))
    /\ NoCall

Next ==
    \/ \E mi, si \in IndexArgs : LinkBegin(mi, si)
    \/ LinkFinish
    \/ UnlinkDevices
    \/ \E h \in {0, 1} : SetDialog(h)
    \/ \E v \in Volumes : SetMasterVolume(v)
    \/ \E m \in BOOLEAN : SetMasterMute(m)
    \/ \E d \in Devices, v \in Volumes : ExternalVolume(d, v)
    \/ \E d \in Devices, m \in BOOLEAN : ExternalMute(d, m)
    \/ OnNotify
    \/ \E v \in Volumes, m \in BOOLEAN, ctx \in Contexts : LateNotify(v, m, ctx)
    \/ WmClose

Spec == Init /\ [][Next]_vars

----------------------------------------------------------------------------
\* Construction of the catalog and lookups in it, for every collection the
\* platform may return.

InitCatalog ==
    /\ devVol = [d \in Devices |-> 0]
    /\ devMute = [d \in Devices |-> FALSE]
    /\ Constructed
    /\ DialogShown
    /\ collection \in Collections
    /\ m_audioDevices = <<>>
    /\ ctorError = "unconstructed"
    /\ lookup = <<>>
    /\ SliderIdle
    /\ ControlsIdle
    /\ CallbackIdle
    /\ OneInstance

\* AudioDeviceManager(processGUID) runs.
Construct ==
    /\ ctorError = "unconstructed"
    /\ \E fail \in CtorFailures, sorted \in stdsort(pushedBack(collection)) :
         \E r \in {constructor(collection, fail, sorted)} :
             /\ ctorError' = r.what
             /\ m_audioDevices' = r.devices
    /\ UNCHANGED <<collection, lookup, sliderVars, instanceVars, hostVars, controlVars, callbackVars, stateVars, callVars,
                   obsVars>>

\* getDevice(idx) is called on the constructed controller.
GetDevice(idx) ==
    /\ ctorError = ""
    /\ \E r \in {getDevice(idx)} :
         lookup' = [idx |-> idx, ok |-> r.ok, what |-> r.what,
                    device |-> IF r.ok THEN m_audioDevices[r.dev + 1] ELSE <<>>]
    /\ UNCHANGED <<collection, m_audioDevices, ctorError, sliderVars, instanceVars, hostVars, controlVars, callbackVars,
                   stateVars, callVars, obsVars>>

NextCatalog ==
    \/ Construct
    \/ \E idx \in (-2) .. (MaxCollection + 1) : GetDevice(idx)

CatalogSpec == InitCatalog /\ [][NextCatalog]_vars

----------------------------------------------------------------------------
\* The slider position _updateDialog posts, for floats in and around [0, 1].

Scalars == (-50) .. 1100

InitSlider ==
    /\ devVol = [d \in Devices |-> 0]
    /\ devMute = [d \in Devices |-> FALSE]
    /\ Constructed
    /\ DialogShown
    /\ CatalogBuilt
    /\ OneInstance
    /\ fScalar \in Scalars
    /\ sliderVolume = <<>>
    /\ ControlsIdle
    /\ CallbackIdle

\* _updateDialog(fScalar, bMuted) is called.
UpdateDialog ==
    /\ \E bMuted \in BOOLEAN :
         \E msgs \in {updateDialog(St, fScalar, bMuted)} :
             sliderVolume' = IF msgs = <<>> THEN sliderVolume ELSE <<msgs[1].slider>>
    /\ UNCHANGED <<fScalar, catalogVars, instanceVars, hostVars, controlVars, callbackVars, stateVars, callVars,
                   obsVars>>

NextSlider ==
    \/ \E hDlg \in {0, 1} : SetDialog(hDlg)
    \/ UpdateDialog

SliderSpec == InitSlider /\ [][NextSlider]_vars

----------------------------------------------------------------------------
\* The single-instance guard of wWinMain, for processes started at any time.

\* CreateMutex(NULL, TRUE, name) by process p: a handle to the mutex, which
\* exists as long as a process holds a handle to it, or NULL if the call
\* fails (refused tells whether it does).
CreateMutex(handles, p, refused) ==
    IF refused
    THEN [handle |-> FALSE, lastError |-> "ERROR_ACCESS_DENIED", handles |-> handles]
    ELSE [handle |-> TRUE,
          lastError |-> IF handles = {} THEN "ERROR_SUCCESS" ELSE "ERROR_ALREADY_EXISTS",
          handles |-> handles \cup {p}]

\* A faulty guard: only a failed CreateMutex turns the process away.
refusesToOpen_ignoresLastError(handle, lastError) == ~handle

\* The guard's condition for turning the process away.
refusesToOpen(handle, lastError) == ~handle \/ lastError = "ERROR_ALREADY_EXISTS"

InitInstances ==
    /\ devVol = [d \in Devices |-> 0]
    /\ devMute = [d \in Devices |-> FALSE]
    /\ Constructed
    /\ DialogShown
    /\ CatalogBuilt
    /\ SliderIdle
    /\ ControlsIdle
    /\ CallbackIdle
    /\ ppc = [p \in Procs |-> "notStarted"]
    /\ mutexHandles = {}
    /\ managers = {}
    /\ enumerated = {}
    /\ exitCodes = [p \in Procs |-> <<>>]

restOfMachine == <<catalogVars, sliderVars, hostVars, controlVars, callbackVars, stateVars, callVars, obsVars>>

\* Process p is started and reaches wWinMain.
Launch(p) ==
    /\ ppc[p] = "notStarted"
    /\ ppc' = [ppc EXCEPT ![p] = "wWinMain"]
    /\ UNCHANGED <<mutexHandles, managers, enumerated, exitCodes, restOfMachine>>

\* Process p calls CreateMutex and tests the result.
Guard(p) ==
    /\ ppc[p] = "wWinMain"
    /\ \E refused \in BOOLEAN :
         \E singleInstanceMutex \in {CreateMutex(mutexHandles, p, refused)} :
             /\ mutexHandles' = singleInstanceMutex.handles
             /\ ppc' = [ppc EXCEPT ![p] =
                            IF refusesToOpen(singleInstanceMutex.handle,
                                             singleInstanceMutex.lastError)
                            THEN "refusing" ELSE "admitted"]
    /\ UNCHANGED <<managers, enumerated, exitCodes, restOfMachine>>

\* Process p, turned away, notifies the other instance or the user and returns 0;
\* its handles are closed when it has terminated.
Refuse(p) ==
    /\ ppc[p] = "refusing"
    /\ ppc' = [ppc EXCEPT ![p] = "refused"]
    /\ exitCodes' = [exitCodes EXCEPT ![p] = <<0>>]
    /\ mutexHandles' = mutexHandles \ {p}
    /\ UNCHANGED <<managers, enumerated, restOfMachine>>

\* Process p, admitted, constructs its AudioDeviceManager, or fails to and exits.
CreateManager(p) ==
    /\ ppc[p] = "admitted"
    /\ \/ /\ ppc' = [ppc EXCEPT ![p] = "running"]
          /\ managers' = managers \cup {p}
          /\ enumerated' = enumerated \cup {p}
          /\ UNCHANGED <<mutexHandles, exitCodes>>
       \/ /\ ppc' = [ppc EXCEPT ![p] = "exited"]
          /\ exitCodes' = [exitCodes EXCEPT ![p] = <<1>>]
          /\ mutexHandles' = mutexHandles \ {p}
          /\ UNCHANGED <<managers, enumerated>>
    /\ UNCHANGED restOfMachine

\* Process p leaves its message loop, destroys its controller and terminates.
Exit(p) ==
    /\ ppc[p] = "running"
    /\ ppc' = [ppc EXCEPT ![p] = "exited"]
    /\ managers' = managers \ {p}
    /\ \E code \in {0, 1} : exitCodes' = [exitCodes EXCEPT ![p] = <<code>>]
    /\ mutexHandles' = mutexHandles \ {p}
    /\ UNCHANGED <<enumerated, restOfMachine>>

NextInstances ==
    \E p \in Procs :
        \/ Launch(p)
        \/ Guard(p)
        \/ Refuse(p)
        \/ CreateManager(p)
        \/ Exit(p)

InstanceSpec == InitInstances /\ [][NextInstances]_vars

\* linkDevices runs to its end once called, and the message loop gets to a
\* posted WM_CLOSE after finitely many other messages.
FairSpec ==
    /\ Init
    /\ [][Next]_vars
    /\ WF_vars(LinkFinish)
    /\ SF_vars(closePosted /\ WmClose)

----------------------------------------------------------------------------
\* The host from the start of wWinMain to its end, for every stored record and
\* with or without /link.

InitHost ==
    /\ devVol = [d \in Devices |-> 0]
    /\ devMute = [d \in Devices |-> FALSE]
    /\ Constructed
    /\ CatalogBuilt
    /\ SliderIdle
    /\ ControlsIdle
    /\ CallbackIdle
    /\ OneInstance
    /\ registry \in Registries
    /\ registry0 = registry
    /\ g_optForceLink \in BOOLEAN
    /\ g_saveChanges = FALSE
    /\ g_hDlg = 0
    /\ g_deviceManager = TRUE
    /\ masterSel = -1
    /\ slaveSel = -1
    /\ hostPc = "start"
    /\ boxOpen = FALSE
    /\ attempted = FALSE
    /\ settings = <<>>
    /\ errorBox = FALSE
    /\ manual = FALSE

\* The arguments of linkDevices are not kept across the steps of the host.
HostCall ==
    /\ masterIdx' = -1
    /\ slaveIdx' = -1
    /\ pre' = <<>>
    /\ prevMaster' = -1
    /\ prevSlave' = -1
    /\ UNCHANGED pc

\* The same, for a step that destroys the controller: the link its destructor
\* found is kept.
Destroyed ==
    /\ masterIdx' = -1
    /\ slaveIdx' = -1
    /\ pre' = <<>>
    /\ prevMaster' = m_iMasterDeviceIdx
    /\ prevSlave' = m_iSlaveDeviceIdx
    /\ UNCHANGED pc

\* WM_INITDIALOG: the dialog attaches itself to the controller, selects the
\* stored devices it finds in the catalog and links them if it is to.
WmInitDialog ==
    /\ hostPc = "start"
    /\ \E opened \in BOOLEAN, f1 \in OpenFailures :
       \E f2 \in IF f1 = "none" THEN FinishFailures ELSE {"none"} :
         \E cfg \in {readSettings(registry, opened)} :
           \E mi \in {savedIndex(cfg.masterDeviceId)}, si \in {savedIndex(cfg.slaveDeviceId)} :
             \E r \in {IF autoLinks(cfg.linkActive, g_optForceLink, mi, si)
                       THEN Dlg_LinkDevices(setDialog(St, 1), mi, si, FALSE, f1, f2)
                       ELSE NotAttempted(setDialog(St, 1))} :
                 /\ SetState(r.s)
                 /\ masterSel' = mi
                 /\ slaveSel' = si
                 /\ attempted' = r.attempted
                 /\ errorBox' = r.box
                 /\ settings' = <<cfg>>
                 /\ Obs("WM_INITDIALOG", IF r.err = "" THEN "ok" ELSE r.err,
                        <<>>, r.w, r.sig, FALSE)
    /\ g_hDlg' = 1
    /\ hostPc' = "running"
    /\ HostCall
    /\ UNCHANGED <<notHost, registry, g_saveChanges, g_deviceManager, boxOpen, manual>>

\* IDC_BUTTON_LINK: the user presses the link button, which links if no link
\* is active and unlinks otherwise.
ButtonLink ==
    /\ hostPc = "running"
    /\ ~boxOpen
    /\ \E f1 \in OpenFailures :
       \E f2 \in IF f1 = "none" THEN FinishFailures ELSE {"none"} :
         \E r \in {IF ~isLinkActive
                   THEN Dlg_LinkDevices(St, masterSel, slaveSel, TRUE, f1, f2)
                   ELSE NotAttempted(Dlg_UnlinkDevices(St))} :
             /\ SetState(r.s)
             /\ attempted' = r.attempted
             /\ errorBox' = r.box
             /\ settings' = <<>>
             /\ Obs("IDC_BUTTON_LINK", IF r.err = "" THEN "ok" ELSE r.err,
                    <<>>, r.w, r.sig, FALSE)
    /\ g_saveChanges' = TRUE
    /\ manual' = TRUE
    /\ HostCall
    /\ UNCHANGED <<notHost, registry, g_hDlg, g_deviceManager, masterSel, slaveSel,
                   hostPc, boxOpen>>

\* CBN_SELCHANGE: the user selects device idx in the master list (list = 1) or
\* in the slave list (list = 2).
SelChange(list, idx) ==
    /\ hostPc = "running"
    /\ ~boxOpen
    /\ idx # (IF list = 1 THEN masterSel ELSE slaveSel)
    /\ masterSel' = IF list = 1 THEN idx ELSE masterSel
    /\ slaveSel' = IF list = 2 THEN idx ELSE slaveSel
    /\ \E s \in {Dlg_UnlinkDevices(St)} : SetState(s)
    /\ g_saveChanges' = TRUE
    /\ manual' = TRUE
    /\ attempted' = FALSE
    /\ settings' = <<>>
    /\ errorBox' = FALSE
    /\ Obs("CBN_SELCHANGE", "ok", <<>>, <<>>, <<>>, FALSE)
    /\ HostCall
    /\ UNCHANGED <<notHost, registry, g_hDlg, g_deviceManager, hostPc, boxOpen>>

\* WM_ENDSESSION with wParam TRUE: the settings are saved, the link is broken
\* and the controller destroyed; the system ends the process after that.
WmEndSession ==
    /\ hostPc = "running"
    /\ \E fail \in IF g_saveChanges THEN SaveFailures ELSE {"none"} :
         \E r \in {SaveAndUnlink(registry, g_saveChanges, g_hDlg, St,
                                 masterSel, slaveSel, fail)} :
             /\ registry' = r.saved.reg
             /\ g_saveChanges' = r.saved.save
             /\ SetState(ExitCleanup(r.s, g_deviceManager))
    /\ g_deviceManager' = FALSE
    /\ hostPc' = "sessionEnded"
    /\ attempted' = FALSE
    /\ settings' = <<>>
    /\ errorBox' = FALSE
    /\ Obs("WM_ENDSESSION", "ok", <<>>, <<>>, <<>>, FALSE)
    /\ Destroyed
    /\ UNCHANGED <<notHost, g_hDlg, masterSel, slaveSel, boxOpen, manual>>

\* wWinMain leaves the message loop on WM_QUIT and runs ExitCleanup.
LoopExit ==
    /\ hostPc = "quitPosted"
    /\ ~boxOpen
    /\ \E s \in {ExitCleanup(St, g_deviceManager)} : SetState(s)
    /\ g_deviceManager' = FALSE
    /\ hostPc' = "exited"
    /\ attempted' = FALSE
    /\ settings' = <<>>
    /\ errorBox' = FALSE
    /\ Obs("Exit", IF getExitCode = 0 THEN "exit0" ELSE "exit1", <<>>, <<>>, <<>>, FALSE)
    /\ Destroyed
    /\ UNCHANGED <<notHost, registry, g_saveChanges, g_hDlg, masterSel, slaveSel,
                   boxOpen, manual>>

\* An exception reaches the catch block of wWinMain (CreateDialog failed, or
\* GetMessage returned -1): the program reports it and runs ExitCleanup.
Throw ==
    /\ hostPc \in {"start", "running"}
    /\ ~boxOpen
    /\ \E s \in {ExitCleanup(St, g_deviceManager)} : SetState(s)
    /\ g_deviceManager' = FALSE
    /\ hostPc' = "exited"
    /\ attempted' = FALSE
    /\ settings' = <<>>
    /\ errorBox' = TRUE
    /\ Obs("Exit", "exit1", <<>>, <<>>, <<>>, FALSE)
    /\ Destroyed
    /\ UNCHANGED <<notHost, registry, g_saveChanges, g_hDlg, masterSel, slaveSel,
                   boxOpen, manual>>

\* Another application changes the volume of endpoint d.
Platform(d, v) ==
    /\ hostPc # "start"
    /\ \E s \in {SetMasterVolumeLevelScalar(St, d, v, OtherGUID)} : SetState(s)
    /\ attempted' = FALSE
    /\ settings' = <<>>
    /\ errorBox' = FALSE
    /\ Obs("external", "ok", <<>>, <<>>, <<>>, FALSE)
    /\ HostCall
    /\ UNCHANGED <<notHost, registry, g_saveChanges, g_hDlg, g_deviceManager, masterSel,
                   slaveSel, hostPc, boxOpen, manual>>

\* OnNotify: the platform delivers the oldest notification, whatever the host
\* is doing; the handler runs up to the MessageBoxW of its fatal report, where
\* it stands until the box is closed.
Deliver ==
    /\ queue # <<>>
    /\ ~boxOpen
    /\ \E fail \in IF HandlerGuard(St) THEN RelayFailures ELSE {"none"} :
         \E r \in {onVolumeCallback([St EXCEPT !.q = Tail(queue)], Head(queue), fail)} :
             /\ SetState([r.s EXCEPT !.closePosted = closePosted])
             /\ boxOpen' = r.fat
             /\ Obs("onVolumeCallback", r.res, <<Head(queue)>>, r.w, r.sig, r.fat)
    /\ attempted' = FALSE
    /\ settings' = <<>>
    /\ errorBox' = FALSE
    /\ HostCall
    /\ UNCHANGED <<notHost, registry, g_saveChanges, g_hDlg, g_deviceManager, masterSel,
                   slaveSel, hostPc, manual>>

\* The MessageBoxW of the fatal report returns and the handler runs to its end.
BoxClosed ==
    /\ boxOpen
    /\ hostPc # "sessionEnded"
    /\ \E s \in {PostMessage(St, g_hDlg)} : SetState(s)
    /\ boxOpen' = FALSE
    /\ attempted' = FALSE
    /\ settings' = <<>>
    /\ errorBox' = FALSE
    /\ Obs("MessageBoxW", "returned", <<>>, <<>>, <<>>, FALSE)
    /\ HostCall
    /\ UNCHANGED <<notHost, registry, g_saveChanges, g_hDlg, g_deviceManager, masterSel,
                   slaveSel, hostPc, manual>>

NextHost ==
    \/ WmInitDialog
    \/ ButtonLink
    \/ \E list \in {1, 2}, idx \in Devices : SelChange(list, idx)
    \/ WmClose
    \/ WmEndSession
    \/ LoopExit
    \/ Throw
    \/ \E d \in Devices, v \in Volumes : Platform(d, v)
    \/ Deliver
    \/ BoxClosed

HostSpec == InitHost /\ [][NextHost]_vars

----------------------------------------------------------------------------
\* The volume controls of the dialog: the slider and the mute checkbox, which
\* are enabled while two devices are linked.

\* The slider positions the user moves the slider to.
Positions == {0, 42}

\* Dlg_ShowLinkState: the checkbox is unchecked when nothing is linked.
Dlg_ShowLinkState(checked, isLinked) == IF isLinked THEN checked ELSE FALSE

\* A faulty WM_HSCROLL: sets the volume and leaves the mute state alone.
wmHScroll_leavesMute(s, checked, pos, okV, okM) ==
    LET iV == IF pos < 0 THEN 0 ELSE IF pos > MAX_VOL THEN MAX_VOL ELSE pos
        v == setMasterVolume(s, (1000 * iV) \div MAX_VOL, okV)
    IN  [s |-> v.s, checked |-> checked, ok |-> v.ret]

\* WM_HSCROLL with the slider at pos and the checkbox in state checked: the
\* controller's state, the checkbox and whether every write succeeded (okV and
\* okM are the platform's answers to the volume and the mute write).
wmHScroll(s, checked, pos, okV, okM) ==
    LET iV == IF pos < 0 THEN 0 ELSE IF pos > MAX_VOL THEN MAX_VOL ELSE pos
        v == setMasterVolume(s, (1000 * iV) \div MAX_VOL, okV)
        mute == setMasterMute(v.s, TRUE, okM)
        unmute == setMasterMute(v.s, FALSE, okM)
    IN  IF iV = 0 THEN [s |-> mute.s, checked |-> TRUE, ok |-> v.ret /\ mute.ret]
        ELSE IF checked THEN [s |-> unmute.s, checked |-> FALSE, ok |-> v.ret /\ unmute.ret]
        ELSE [s |-> v.s, checked |-> checked, ok |-> v.ret]

\* The dialog is shown, attached to the controller, and the user has selected
\* two different devices.
InitScroll ==
    /\ devVol \in [Devices -> Volumes]
    /\ devMute \in [Devices -> BOOLEAN]
    /\ \E s \in {setDialog([active |-> FALSE, mIdx |-> -1, sIdx |-> -1, mVol |-> nullptr,
                            sVol |-> nullptr, exitCode |-> 0, hDialog |-> 0,
                            closePosted |-> FALSE, subs |-> {}, refs |-> 1,
                            vol |-> devVol,
                            mute |-> devMute, q |-> <<>>], 1)} :
         /\ subs = s.subs
         /\ m_references = s.refs
         /\ queue = s.q
         /\ m_exitCode = s.exitCode
         /\ m_hDialog = s.hDialog
         /\ m_bLinkActive = s.active
         /\ m_iMasterDeviceIdx = s.mIdx
         /\ m_iSlaveDeviceIdx = s.sIdx
         /\ m_pMasterEndptVol = s.mVol
         /\ m_pSlaveEndptVol = s.sVol
         /\ closePosted = s.closePosted
    /\ pc = "idle"
    /\ masterIdx = -1
    /\ slaveIdx = -1
    /\ pre = <<>>
    /\ prevMaster = -1
    /\ prevSlave = -1
    /\ lastOp = "CBN_SELCHANGE"
    /\ result = "ok"
    /\ pNotify = <<>>
    /\ written = <<>>
    /\ signal = <<>>
    /\ fatal = FALSE
    /\ CatalogBuilt
    /\ SliderIdle
    /\ OneInstance
    /\ ControlsIdle
    /\ CallbackIdle
    /\ registry = NoSettings
    /\ registry0 = NoSettings
    /\ g_optForceLink = FALSE
    /\ g_saveChanges = TRUE
    /\ g_hDlg = 1
    /\ g_deviceManager = TRUE
    /\ masterSel \in Devices
    /\ slaveSel \in Devices \ {masterSel}
    /\ hostPc = "running"
    /\ boxOpen = FALSE
    /\ attempted = FALSE
    /\ settings = <<>>
    /\ errorBox = FALSE
    /\ manual = TRUE

\* A step of the dialog that leaves the controller in s and has posted msgs.
\* The steps the user's input starts (button, slider, checkbox) are taken when
\* no posted message waits: GetMessage returns posted messages before input.
Controls(s, msgs) ==
    /\ Len(s.q) <= MaxScrollQueue
    /\ Len(posted \o msgs) <= MaxPosted
    /\ Assign(s)
    /\ posted' = posted \o msgs
    /\ HostCall
    /\ UNCHANGED <<catalogVars, sliderVars, instanceVars, hostVars, callbackVars>>

\* IDC_BUTTON_LINK where the volume controls are followed.
ScrollButton ==
    /\ hostPc = "running"
    /\ posted = <<>>
    /\ \E f1 \in OpenFailures :
       \E f2 \in IF f1 = "none" THEN FinishFailures ELSE {"none"} :
         \E r \in {IF ~isLinkActive
                   THEN Dlg_LinkDevices(St, masterSel, slaveSel, TRUE, f1, f2)
                   ELSE NotAttempted(Dlg_UnlinkDevices(St))} :
             /\ Controls(r.s, r.sig)
             /\ muteChecked' = Dlg_ShowLinkState(muteChecked, r.s.active)
             /\ Obs("IDC_BUTTON_LINK", IF r.err = "" THEN "ok" ELSE r.err,
                    <<>>, r.w, r.sig, FALSE)
    /\ iVolume' = <<>>

\* WM_HSCROLL: the user moves the slider to pos.
WmHScroll(pos) ==
    /\ hostPc = "running"
    /\ posted = <<>>
    /\ m_bLinkActive
    /\ \E okV, okM \in BOOLEAN :
         \E r \in {wmHScroll(St, muteChecked, pos, okV, okM)} :
             /\ Controls(r.s, <<>>)
             /\ muteChecked' = r.checked
             /\ Obs("WM_HSCROLL", IF r.ok THEN "ok" ELSE "failed", <<>>, <<>>, <<>>, FALSE)
    /\ iVolume' = <<pos>>

\* IDC_CHECK_MUTE: the user clicks the mute checkbox, which toggles.
CheckMute ==
    /\ hostPc = "running"
    /\ posted = <<>>
    /\ m_bLinkActive
    /\ \E ok \in BOOLEAN :
         \E r \in {setMasterMute(St, ~muteChecked, ok)} :
             /\ Controls(r.s, <<>>)
             /\ Obs("IDC_CHECK_MUTE", IF r.ret THEN "ok" ELSE "failed",
                    <<>>, <<>>, <<>>, FALSE)
    /\ muteChecked' = ~muteChecked
    /\ iVolume' = <<>>

\* Another application changes the volume or the mute state of endpoint d.
Mixer(d, v, m) ==
    /\ hostPc = "running"
    /\ (v = devVol[d]) # (m = devMute[d])
    /\ \E s \in {IF v # devVol[d]
                 THEN SetMasterVolumeLevelScalar(St, d, v, OtherGUID)
                 ELSE SetMute(St, d, m, OtherGUID)} : Controls(s, <<>>)
    /\ Obs("external", "ok", <<>>, <<>>, <<>>, FALSE)
    /\ UNCHANGED muteChecked
    /\ iVolume' = <<>>

\* OnNotify: the handler runs on the oldest notification and posts its dialog
\* updates.
Notify ==
    /\ hostPc = "running"
    /\ queue # <<>>
    /\ \E fail \in IF HandlerGuard(St) THEN RelayFailures ELSE {"none"} :
         \E r \in {onVolumeCallback([St EXCEPT !.q = Tail(queue)], Head(queue), fail)} :
             /\ Controls(r.s, r.sig)
             /\ Obs("onVolumeCallback", r.res, <<Head(queue)>>, r.w, r.sig, r.fat)
    /\ UNCHANGED muteChecked
    /\ iVolume' = <<>>

\* The dialog handles the oldest message _updateDialog posted: BM_SETCHECK
\* sets the checkbox (TBM_SETPOS the slider).
DlgPosted ==
    /\ hostPc = "running"
    /\ posted # <<>>
    /\ muteChecked' = Head(posted).mute
    /\ posted' = Tail(posted)
    /\ iVolume' = <<>>
    /\ Obs("BM_SETCHECK", "ok", <<>>, <<>>, <<>>, FALSE)
    /\ HostCall
    /\ UNCHANGED <<stateVars, catalogVars, sliderVars, instanceVars, hostVars,
                   callbackVars>>

NextScroll ==
    \/ ScrollButton
    \/ \E pos \in Positions : WmHScroll(pos)
    \/ CheckMute
    \/ \E d \in Devices, v \in Volumes, m \in BOOLEAN : Mixer(d, v, m)
    \/ Notify
    \/ DlgPosted

ScrollSpec == InitScroll /\ [][NextScroll]_vars

----------------------------------------------------------------------------
\* The callback object on its own: AudioEndpointVolumeCallback with any
\* callable registered in it, given any pointer by the platform.

\* What a callable does when it is invoked.
Callables == {"returns", "throws"}

\* The pointers the platform passes to OnNotify: NULL is <<>>, a pointer to
\* notification n is <<n>>.
NotifyArgs ==
    {<<>>} \cup {<<Notification(0, v, m, OtherGUID)>> : v \in Volumes, m \in BOOLEAN}

\* A faulty OnNotify: it has no try block around the callable.
callbackOnNotify_rethrows(callback, p) ==
    IF p = <<>> THEN [hr |-> "E_INVALIDARG", invoked |-> <<>>, propagates |-> FALSE]
    ELSE IF callback = "" THEN [hr |-> "S_OK", invoked |-> <<>>, propagates |-> FALSE]
    ELSE IF callback = "throws" THEN [hr |-> "", invoked |-> p, propagates |-> TRUE]
    ELSE [hr |-> "S_OK", invoked |-> p, propagates |-> FALSE]

\* OnNotify(pNotify) with callback in m_externalCallback: the HRESULT, the
\* notifications the callable was invoked with, and whether an exception
\* leaves the function.
callbackOnNotify(callback, p) ==
    IF p = <<>> THEN [hr |-> "E_INVALIDARG", invoked |-> <<>>, propagates |-> FALSE]
    ELSE LET called == callback # ""
             thrown == called /\ callback = "throws"
             caught == thrown
         IN  [hr |-> "S_OK",
              invoked |-> IF called THEN p ELSE <<>>,
              propagates |-> thrown /\ ~caught]

registerCallback(callback) == callback
unregisterCallback == ""

\* The callback object as AudioEndpointVolumeCallback() leaves it.
InitCallback ==
    /\ devVol = [d \in Devices |-> 0]
    /\ devMute = [d \in Devices |-> FALSE]
    /\ Constructed
    /\ DialogShown
    /\ CatalogBuilt
    /\ SliderIdle
    /\ ControlsIdle
    /\ OneInstance
    /\ m_externalCallback = ""
    /\ invocations = <<>>
    /\ propagated = FALSE

notCallback == <<stateVars, callVars, catalogVars, sliderVars, instanceVars, hostVars,
                 controlVars>>

RegisterCallback(callback) ==
    /\ m_externalCallback' = registerCallback(callback)
    /\ propagated' = FALSE
    /\ Obs("registerCallback", "ok", <<>>, <<>>, <<>>, FALSE)
    /\ UNCHANGED <<invocations, notCallback>>

UnregisterCallback ==
    /\ m_externalCallback' = unregisterCallback
    /\ propagated' = FALSE
    /\ Obs("unregisterCallback", "ok", <<>>, <<>>, <<>>, FALSE)
    /\ UNCHANGED <<invocations, notCallback>>

\* The platform calls OnNotify(p).
CallbackNotify(p) ==
    /\ \E r \in {callbackOnNotify(m_externalCallback, p)} :
         /\ Len(invocations \o r.invoked) <= MaxInvocations
         /\ invocations' = invocations \o r.invoked
         /\ propagated' = r.propagates
         /\ Obs("OnNotify", r.hr, p, <<>>, <<>>, FALSE)
    /\ UNCHANGED <<m_externalCallback, notCallback>>

NextCallback ==
    \/ \E callback \in Callables : RegisterCallback(callback)
    \/ UnregisterCallback
    \/ \E p \in NotifyArgs : CallbackNotify(p)

CallbackSpec == InitCallback /\ [][NextCallback]_vars

TypeOK ==
    /\ subs \subseteq Devices
    /\ Len(queue) <= MaxQueue
    /\ m_pMasterEndptVol \in Devices \cup {nullptr}
    /\ m_pSlaveEndptVol \in Devices \cup {nullptr}
    /\ pc \in {"idle", "registered", "closed"}
    /\ Len(m_audioDevices) = NumDevices

----------------------------------------------------------------------------
\* Properties.

\* C1: after a failed linkDevices call, whichever step failed, isLinkActive()
\* is false and no subscription is registered on any endpoint; and as long as
\* the controller is not linked nothing is subscribed or waiting for delivery,
\* so a later change on the intended master (by another application or through
\* setMasterVolume / setMasterMute) reaches no handler, and a handler that is
\* reached anyway writes nothing to the slave.
C1_FailedLinkLeavesNoLink ==
    /\ (lastOp = "linkDevices" /\ result \in LinkErrors) =>
           (~isLinkActive /\ subs = {} /\ queue = <<>>)
    /\ ~m_bLinkActive => (subs = {} /\ queue = <<>>)
    /\ (~m_bLinkActive
            /\ lastOp \in {"external", "setMasterVolume", "setMasterMute", "onVolumeCallback"}) =>
           written = <<>>

\* A link attempt from a linked controller failed at the slave sync, after the
\* registration had succeeded.
C1_Witness ==
    /\ lastOp = "linkDevices"
    /\ result = "Sync"
    /\ prevSlave # -1
    /\ written # <<>>

\* C2: after a failed linkDevices call both indices are -1 and both endpoint
\* volume handles have been released, whichever step failed.
C2_FailedLinkIsClean ==
    (lastOp = "linkDevices" /\ result \in LinkErrors) =>
        /\ m_iMasterDeviceIdx = -1
        /\ m_iSlaveDeviceIdx = -1
        /\ m_pMasterEndptVol = nullptr
        /\ m_pSlaveEndptVol = nullptr

\* C3: a linkDevices call that returns normally had valid, distinct arguments
\* and leaves the controller linked, the two getters equal to the arguments and
\* the slave's volume and mute equal to what the master had before the call;
\* and from every state between operations, for every pair of valid, distinct
\* indices, the call in which no device operation fails returns normally with
\* that outcome.
C3_SuccessfulLinkSyncsSlave ==
    /\ (lastOp = "linkDevices" /\ result = "ok") =>
           /\ masterIdx \in Devices /\ slaveIdx \in Devices /\ masterIdx # slaveIdx
           /\ isLinkActive
           /\ getMasterDeviceIdx = masterIdx
           /\ getSlaveDeviceIdx = slaveIdx
           /\ <<devVol[slaveIdx], devMute[slaveIdx]>> = pre
           /\ written = <<[dev |-> slaveIdx, kind |-> "volume", val |-> pre[1], ok |-> TRUE],
                          [dev |-> slaveIdx, kind |-> "mute",
                           val |-> IF pre[2] THEN 1 ELSE 0, ok |-> TRUE]>>
    /\ pc = "idle" =>
           \A mi, si \in Devices :
               mi # si =>
                   LET a == linkOpen(St, mi, si, "none")
                       b == linkFinish(a.s, "none")
                   IN  /\ a.err = "" /\ b.err = ""
                       /\ b.s.active /\ b.s.mIdx = mi /\ b.s.sIdx = si
                       /\ b.s.vol[si] = devVol[mi] /\ b.s.mute[si] = devMute[mi]

\* The controller was linked the other way round, and was linked anew with a
\* master whose volume and mute differed from the slave's.
C3_Witness ==
    /\ lastOp = "linkDevices"
    /\ result = "ok"
    /\ prevSlave = masterIdx
    /\ pre = <<420, TRUE>>
    /\ devVol[masterIdx] = devVol[slaveIdx]

\* C4 as stated: in no intermediate state of a link attempt whose initial slave
\* sync has not yet succeeded is the controller linked.
C4_NotLinkedBeforeSync ==
    pc = "registered" => ~isLinkActive

\* C4, amended: linkDevices marks the controller linked as soon as the
\* registration has succeeded, before it reads the master's state and syncs the
\* slave, and in that intermediate state the handler's guard is already
\* satisfied; a later failure unlinks it again before the call returns, so a
\* call leaves the controller linked only if every step succeeded, and the
\* dialog is updated only by a call in which every step succeeded.
C4_LinkedFromRegistration ==
    /\ pc = "registered" =>
           /\ isLinkActive
           /\ getMasterDeviceIdx = masterIdx /\ getSlaveDeviceIdx = slaveIdx
           /\ subs = {m_pMasterEndptVol}
           /\ HandlerGuard(St)
           /\ written = <<>> /\ signal = <<>>
    /\ (lastOp = "linkDevices" /\ pc = "idle" /\ isLinkActive) => result = "ok"
    /\ (lastOp = "linkDevices" /\ signal # <<>>) => result = "ok"

\* linkDevices has registered the callback and not yet synced the slave, whose
\* volume differs from the master's, with a dialog attached.
C4_Witness ==
    /\ pc = "registered"
    /\ m_hDialog # 0
    /\ devVol[m_pMasterEndptVol] # devVol[m_pSlaveEndptVol]

\* C5: linkDevices(i, i) for a valid index i fails with the self-link error and
\* leaves the controller unlinked (flag false, indices -1, handles released,
\* nothing subscribed), whether or not it was linked before the call.
C5_SelfLinkFails ==
    (lastOp = "linkDevices" /\ masterIdx = slaveIdx /\ masterIdx \in Devices) =>
        /\ pc = "idle"
        /\ result = "SelfLink"
        /\ ~isLinkActive
        /\ getMasterDeviceIdx = -1 /\ getSlaveDeviceIdx = -1
        /\ m_pMasterEndptVol = nullptr /\ m_pSlaveEndptVol = nullptr
        /\ subs = {}

\* linkDevices(i, i) was called on a linked controller.
C5_Witness ==
    /\ lastOp = "linkDevices"
    /\ result = "SelfLink"
    /\ masterIdx \in Devices
    /\ prevSlave # -1

\* C6: unlinkDevices never fails; from every state between operations it leaves
\* the flag false, both indices -1, both handles released and nothing
\* subscribed, and a second call changes nothing.
C6_UnlinkIsIdempotent ==
    /\ lastOp = "unlinkDevices" =>
           /\ result = "ok"
           /\ ~isLinkActive
           /\ getMasterDeviceIdx = -1 /\ getSlaveDeviceIdx = -1
           /\ m_pMasterEndptVol = nullptr /\ m_pSlaveEndptVol = nullptr
           /\ subs = {}
           /\ unlinkDevices(St) = St
    /\ pc = "idle" =>
           LET u == unlinkDevices(St)
           IN  /\ ~u.active /\ u.mIdx = -1 /\ u.sIdx = -1
               /\ u.mVol = nullptr /\ u.sVol = nullptr
               /\ u.subs = {}
               /\ unlinkDevices(u) = u

\* unlinkDevices was called on a linked controller.
C6_Witness ==
    /\ lastOp = "unlinkDevices"
    /\ prevSlave # -1

\* C7: while linked, the handler given a notification (v, m) whose event
\* context is not the process GUID writes v and then m through the slave
\* handle; when both writes succeed the slave's volume and mute are (v, m);
\* and with a dialog attached the dialog is updated with the same (v, m).
C7_ExternalChangeRelayedAndShown ==
    (lastOp = "onVolumeCallback" /\ result # "ignored"
         /\ pNotify[1].guidEventContext # ProcessGUID) =>
        LET v == pNotify[1].fMasterVolume
            m == pNotify[1].bMuted
        IN  /\ written[1].dev = m_pSlaveEndptVol
            /\ written[1].kind = "volume" /\ written[1].val = v
            /\ result = "relayed" =>
                   /\ written = <<[dev |-> getSlaveDeviceIdx, kind |-> "volume",
                                   val |-> v, ok |-> TRUE],
                                  [dev |-> getSlaveDeviceIdx, kind |-> "mute",
                                   val |-> IF m THEN 1 ELSE 0, ok |-> TRUE]>>
                   /\ devVol[getSlaveDeviceIdx] = v
                   /\ devMute[getSlaveDeviceIdx] = m
            /\ m_hDialog # 0 =>
                   signal = <<[vol |-> v, mute |-> m, slider |-> SliderPos(v)]>>

\* Another application's change of the master to (0.42, muted) was relayed and
\* shown.
C7_Witness ==
    /\ lastOp = "onVolumeCallback"
    /\ result = "relayed"
    /\ pNotify[1].guidEventContext = OtherGUID
    /\ pNotify[1].fMasterVolume = 420
    /\ pNotify[1].bMuted
    /\ signal # <<>>
    /\ devVol[getSlaveDeviceIdx] = 420

\* C8: setMasterVolume and setMasterMute tag their writes with the process
\* GUID; while linked, the handler given a notification with that context
\* relays it to the slave and does not update the dialog, and with a dialog
\* attached the dialog is updated if and only if the context differs from the
\* process GUID.
C8_OwnChangeRelayedNotShown ==
    /\ (lastOp \in {"setMasterVolume", "setMasterMute"} /\ result = "true" /\ queue # <<>>) =>
           queue[Len(queue)].guidEventContext = ProcessGUID
    /\ (lastOp = "onVolumeCallback" /\ result # "ignored") =>
           LET n == pNotify[1]
           IN  /\ signal # <<>> => n.guidEventContext # ProcessGUID
               /\ m_hDialog # 0 => (signal # <<>> <=> n.guidEventContext # ProcessGUID)
               /\ n.guidEventContext = ProcessGUID =>
                      /\ written # <<>>
                      /\ written[1].dev = m_pSlaveEndptVol
                      /\ written[1].val = n.fMasterVolume
                      /\ result = "relayed" =>
                             /\ devVol[getSlaveDeviceIdx] = n.fMasterVolume
                             /\ devMute[getSlaveDeviceIdx] = n.bMuted

\* The controller's own change of the master was relayed with a dialog
\* attached, and the dialog was not updated.
C8_Witness ==
    /\ lastOp = "onVolumeCallback"
    /\ result = "relayed"
    /\ pNotify[1].guidEventContext = ProcessGUID
    /\ m_hDialog # 0
    /\ signal = <<>>

\* C9 as stated: a notification handled while the controller is not linked or
\* a handle is missing has no effect, and once unlinkDevices has returned no
\* write to the former slave is made until the next successful linkDevices
\* (so none by a linkDevices call that fails).
C9_NoWriteToFormerSlave ==
    /\ (lastOp = "onVolumeCallback"
            /\ (~isLinkActive \/ m_pMasterEndptVol = nullptr \/ m_pSlaveEndptVol = nullptr)) =>
           (written = <<>> /\ signal = <<>> /\ ~fatal)
    /\ (lastOp = "linkDevices" /\ result \in LinkErrors /\ prevSlave # -1) =>
           \A i \in DOMAIN written : ~(written[i].dev = prevSlave /\ written[i].ok)

\* C9, amended: a notification handled while the controller is not linked or
\* a handle is missing has no effect (no slave write, no dialog update, no
\* fatal report).  The controller
\* writes through the slave handle only in a handler run that passed the guard
\* and in the initial sync of linkDevices; that sync writes to the slave the
\* call names, which may be the former slave, and its volume write persists
\* when the mute write then fails and the call fails.
C9_WritesOnlyFromLinkedHandlerOrSync ==
    /\ (lastOp = "onVolumeCallback"
            /\ (~isLinkActive \/ m_pMasterEndptVol = nullptr \/ m_pSlaveEndptVol = nullptr)) =>
           /\ result = "ignored"
           /\ written = <<>> /\ signal = <<>> /\ ~fatal
    /\ (lastOp = "onVolumeCallback" /\ result = "ignored") =>
           ((~isLinkActive \/ m_pMasterEndptVol = nullptr \/ m_pSlaveEndptVol = nullptr)
                /\ written = <<>>)
    /\ written # <<>> =>
           \/ lastOp = "onVolumeCallback"
                  /\ (isLinkActive /\ m_pMasterEndptVol # nullptr /\ m_pSlaveEndptVol # nullptr)
           \/ lastOp = "linkDevices" /\ pc = "idle" /\ result \in {"ok", "Sync"}
    /\ (lastOp = "linkDevices" /\ written # <<>>) =>
           \A i \in DOMAIN written : written[i].dev = slaveIdx
    /\ (lastOp = "linkDevices" /\ result = "Sync" /\ Len(written) = 2) =>
           (written[1].ok /\ devVol[slaveIdx] = written[1].val)

\* A notification from another application reached the handler while the
\* controller was not linked and still held both handles, with a dialog
\* attached.
C9_Witness ==
    /\ lastOp = "onVolumeCallback"
    /\ result = "ignored"
    /\ ~isLinkActive
    /\ m_pMasterEndptVol # nullptr
    /\ m_pSlaveEndptVol # nullptr
    /\ m_hDialog # 0
    /\ pNotify[1].guidEventContext = OtherGUID

\* C10: whenever relaying a notification to the slave fails while linked, the
\* exit code becomes non-zero and a close request is posted, with or without a
\* dialog attached.
C10_RelayFailureIsFatal ==
    (lastOp = "onVolumeCallback" /\ result = "relayFailed") =>
        /\ getExitCode # 0
        /\ closePosted
        /\ fatal

C12_UnlinkedMasterWritesAreNoOps ==
    [][(~isLinkActive /\ lastOp' \in {"setMasterVolume", "setMasterMute"}) =>
           (result' = "true" /\ devVol' = devVol /\ devMute' = devMute)]_vars

\* C13: a setMasterVolume or setMasterMute call returns true or false and
\* never changes the link flag, the indices, the handles, the subscription,
\* the exit code or the close request; it returns false only when it holds a
\* master handle and the write failed, and then no endpoint has changed and
\* no notification was sent; when it returns true only the endpoint of the
\* master handle can have changed.
C13_MasterWritesKeepLinkState ==
    [][lastOp' \in {"setMasterVolume", "setMasterMute"} =>
           /\ result' \in {"true", "false"}
           /\ UNCHANGED <<m_bLinkActive, m_iMasterDeviceIdx, m_iSlaveDeviceIdx,
                          m_pMasterEndptVol, m_pSlaveEndptVol, subs, m_exitCode,
                          closePosted, m_hDialog>>
           /\ result' = "false" =>
                  /\ m_pMasterEndptVol # nullptr
                  /\ UNCHANGED <<devVol, devMute, queue>>
           /\ m_pMasterEndptVol = nullptr =>
                  /\ result' = "true"
                  /\ UNCHANGED <<devVol, devMute, queue>>
           /\ \A d \in Devices :
                  d # m_pMasterEndptVol =>
                      (devVol'[d] = devVol[d] /\ devMute'[d] = devMute[d])]_vars

\* setMasterVolume returned false on a linked controller, which is still linked.
C13_Witness ==
    /\ lastOp = "setMasterVolume"
    /\ result = "false"
    /\ isLinkActive
    /\ subs = {m_pMasterEndptVol}

\* C14: in every reachable state at most one link exists (the callback is
\* registered on at most one endpoint, and only on the master of the active
\* link); isLinkActive() is true if and only if both indices are not -1, and
\* when it is false both are -1; whenever linked the two indices are
\* distinct positions of the catalog and the handles are open on them.
C14_AtMostOneLink ==
    /\ Cardinality(subs) <= 1
    /\ subs = IF isLinkActive THEN {getMasterDeviceIdx} ELSE {}
    /\ isLinkActive <=> (getMasterDeviceIdx # -1 /\ getSlaveDeviceIdx # -1)
    /\ ~isLinkActive => (getMasterDeviceIdx = -1 /\ getSlaveDeviceIdx = -1)
    /\ isLinkActive =>
           /\ getMasterDeviceIdx # getSlaveDeviceIdx
           /\ getMasterDeviceIdx >= 0 /\ getMasterDeviceIdx < NumDevices
           /\ getSlaveDeviceIdx >= 0 /\ getSlaveDeviceIdx < NumDevices
           /\ m_pMasterEndptVol = getMasterDeviceIdx
           /\ m_pSlaveEndptVol = getSlaveDeviceIdx

\* A linked controller was linked anew to the same slave.
C14_Witness ==
    /\ isLinkActive
    /\ lastOp = "linkDevices"
    /\ result = "ok"
    /\ prevSlave = slaveIdx

C16_GetDeviceChecksIndex ==
    [][lookup' # lookup =>
        /\ (lookup'.idx >= 0 /\ lookup'.idx < Len(m_audioDevices)) =>
               /\ lookup'.ok
               /\ lookup'.device = m_audioDevices[lookup'.idx + 1]
        /\ lookup'.idx < 0 =>
               /\ ~lookup'.ok
               /\ lookup'.what = "Negative device number requested."
        /\ lookup'.idx >= Len(m_audioDevices) =>
               /\ ~lookup'.ok
               /\ lookup'.what = "Invalid device number requested."
        /\ m_audioDevices' = m_audioDevices
        /\ m_bLinkActive' = m_bLinkActive
        /\ m_iMasterDeviceIdx' = m_iMasterDeviceIdx
        /\ m_iSlaveDeviceIdx' = m_iSlaveDeviceIdx
        /\ m_pMasterEndptVol' = m_pMasterEndptVol
        /\ m_pSlaveEndptVol' = m_pSlaveEndptVol
        /\ subs' = subs]_vars

\* The last position of a catalog of three endpoints was looked up.
C16_Witness ==
    /\ lookup # <<>>
    /\ lookup.ok
    /\ lookup.idx = 2
    /\ Len(m_audioDevices) = 3
    /\ lookup.device = m_audioDevices[3]

\* C17: the catalog built at construction is ordered ascending by display name
\* under case-insensitive comparison, and devices whose names compare equal
\* keep their discovery order, so that the order is determined by the
\* discovery sequence.
C17_CatalogSortedStably ==
    ctorError = "" =>
        \A i, j \in 1 .. Len(m_audioDevices) :
            i < j =>
                /\ wcsicmp(m_audioDevices[i].m_wsName, m_audioDevices[j].m_wsName) <= 0
                /\ wcsicmp(m_audioDevices[i].m_wsName, m_audioDevices[j].m_wsName) = 0 =>
                       m_audioDevices[i].m_iItemOffset < m_audioDevices[j].m_iItemOffset

\* C18: construction fails with an error when the platform reports no rendering
\* device, and otherwise the catalog is a permutation of the discovered
\* devices: as many entries as the collection has items, every item in
\* exactly one entry, and no identifier twice.
C18_CatalogIsPermutationOfCollection ==
    /\ (ctorError # "unconstructed" /\ Len(collection) = 0) =>
           /\ ctorError # ""
           /\ m_audioDevices = <<>>
    /\ ctorError = "" =>
           /\ Len(m_audioDevices) = Len(collection)
           /\ \A i \in 1 .. Len(collection) :
                  Cardinality({k \in 1 .. Len(m_audioDevices) :
                                  m_audioDevices[k] = AudioDevice(i - 1, collection[i])}) = 1
           /\ \A k, l \in 1 .. Len(m_audioDevices) :
                  m_audioDevices[k].m_wsId = m_audioDevices[l].m_wsId => k = l

\* Three endpoints were discovered and the catalog lists them in another order.
C18_Witness ==
    /\ ctorError = ""
    /\ Len(collection) = 3
    /\ m_audioDevices[1].m_iItemOffset = 2
    /\ m_audioDevices[3].m_iItemOffset = 0

\* C19 as stated: the slider position shown for a volume scalar is the scalar
\* times 100 with halves rounded up, clamped to 0..100; the scalar 0.505 maps
\* to 51, 0.0 to 0 and 1.0 to 100.
C19_SliderRoundsDecimalHalfUp ==
    sliderVolume # <<>> =>
        /\ sliderVolume[1] \in 0 .. MAX_VOL
        /\ LET halfUp == (fScalar + 5) \div 10
           IN  sliderVolume[1] = IF halfUp < 0 THEN 0
                              ELSE IF halfUp > MAX_VOL THEN MAX_VOL ELSE halfUp
        /\ fScalar = 505 => sliderVolume[1] = 51
        /\ fScalar = 0 => sliderVolume[1] = 0
        /\ fScalar = 1000 => sliderVolume[1] = 100

\* C19: the slider position shown is the value of the float times 100 with
\* halves rounded up, clamped to 0..100.  Where the decimal scalar is not a
\* half of a position, or is a float itself (a multiple of 0.125), this is
\* the decimal scalar rounded half up; the float for any other decimal half
\* lies beside it and yields one of the two neighbouring positions, and the
\* float 0.505f lies below 0.505 and maps to 50.  0.0 maps to 0 and 1.0 to 100.
C19_SliderRoundsFloatHalfUp ==
    sliderVolume # <<>> =>
        LET halfUp == (fScalar + 5) \div 10
            clamp(x) == IF x < 0 THEN 0 ELSE IF x > MAX_VOL THEN MAX_VOL ELSE x
        IN  /\ sliderVolume[1] \in 0 .. MAX_VOL
            /\ (fScalar % 10 # 5 \/ fScalar % 125 = 0) => sliderVolume[1] = clamp(halfUp)
            /\ sliderVolume[1] \in {clamp(halfUp - 1), clamp(halfUp)}
            /\ fScalar = 505 => sliderVolume[1] = 50
            /\ fScalar = 0 => sliderVolume[1] = 0
            /\ fScalar = 1000 => sliderVolume[1] = 100

\* The position for 0.625f, a half that is a float, was posted: 63.
C19_Witness ==
    /\ m_hDialog # 0
    /\ fScalar = 625
    /\ sliderVolume = <<63>>

\* C20: whatever the interleaving of the processes started on the machine, at
\* most one of them at a time is past the single-instance guard and at most
\* one holds an AudioDeviceManager; every process the guard turns away has
\* never constructed a controller and returns exit code 0.
C20_AtMostOneInstance ==
    /\ Cardinality({p \in Procs : ppc[p] \in {"admitted", "running"}}) <= 1
    /\ Cardinality(managers) <= 1
    /\ \A p \in Procs :
           ppc[p] \in {"refusing", "refused"} => (p \notin enumerated /\ p \notin managers)
    /\ \A p \in Procs : ppc[p] = "refused" => exitCodes[p] = <<0>>
    /\ \A p \in Procs : p \in managers => (p \in mutexHandles /\ ppc[p] = "running")

\* One process runs with its controller while a second one has been turned
\* away with exit code 0 and a third is being turned away.
C20_Witness ==
    \E p, q, r \in Procs :
        /\ ppc[p] = "running" /\ p \in managers
        /\ ppc[q] = "refused" /\ exitCodes[q] = <<0>>
        /\ ppc[r] = "refusing" /\ r \in mutexHandles

\* C25: linkDevices tears down any existing link before anything else: a call
\* made while linked to (a, b) that fails, for whatever reason (self-link and
\* invalid index included), leaves the controller unlinked, with both getters
\* -1 and no subscription on a, and nothing from a waiting for delivery; and
\* while a call is still running after its registration, the only subscription
\* is the one on its own master.
C25_FailedRelinkDropsOldLink ==
    /\ (lastOp = "linkDevices" /\ result \in LinkErrors /\ prevMaster # -1) =>
           /\ ~isLinkActive
           /\ getMasterDeviceIdx = -1 /\ getSlaveDeviceIdx = -1
           /\ prevMaster \notin subs
           /\ \A i \in DOMAIN queue : queue[i].src # prevMaster
    /\ (lastOp = "linkDevices" /\ prevMaster # -1) =>
           (getMasterDeviceIdx # prevMaster \/ getMasterDeviceIdx = masterIdx)
    /\ (pc = "registered" /\ prevMaster # -1) => subs = {masterIdx}

\* linkDevices with an index outside the catalog was called on a controller
\* linked to (a, b).
C25_Witness ==
    /\ lastOp = "linkDevices"
    /\ result = "InvalidIndex"
    /\ prevMaster # -1
    /\ prevSlave # -1
    /\ masterIdx = prevMaster

\* C26: the self-link check precedes index resolution: linkDevices(i, i) fails
\* with the self-link error for every i, negative and out-of-range i included,
\* never with the invalid-index error; and for different arguments an invalid
\* masterIdx is reported as an invalid index with no handle opened and
\* nothing subscribed.
C26_SelfLinkCheckedBeforeIndices ==
    /\ (lastOp = "linkDevices" /\ masterIdx = slaveIdx) =>
           (pc = "idle" /\ result = "SelfLink")
    /\ (lastOp = "linkDevices" /\ result = "SelfLink") => masterIdx = slaveIdx
    /\ (lastOp = "linkDevices" /\ masterIdx # slaveIdx /\ masterIdx \notin Devices) =>
           /\ pc = "idle"
           /\ result = "InvalidIndex"
           /\ ~getDevice(masterIdx).ok
           /\ m_pMasterEndptVol = nullptr /\ m_pSlaveEndptVol = nullptr
           /\ subs = {}

\* linkDevices(2, 2), with an index past the end of the catalog, was called on
\* a linked controller and failed with the self-link error.
C26_Witness ==
    /\ lastOp = "linkDevices"
    /\ masterIdx = 2 /\ slaveIdx = 2
    /\ result = "SelfLink"
    /\ prevMaster # -1

\* C27: each notification handled while linked causes exactly one relay attempt
\* on the slave, one volume write followed by at most one mute write, with no
\* retry after a failure; the controller is subscribed on the master only, so
\* nothing from the slave waits for delivery and a run of the handler adds no
\* notification to those waiting: one master change starts no chain of relays.
C27_OneRelayPerNotification ==
    /\ []((lastOp = "onVolumeCallback" /\ result # "ignored") =>
             /\ Len(written) \in {1, 2}
             /\ written[1].kind = "volume"
             /\ written[1].dev = m_pSlaveEndptVol
             /\ written[1].val = pNotify[1].fMasterVolume
             /\ Len(written) = 1 => (~written[1].ok /\ result = "relayFailed")
             /\ Len(written) = 2 =>
                    /\ written[1].ok
                    /\ written[2].kind = "mute"
                    /\ written[2].dev = m_pSlaveEndptVol
                    /\ written[2].val = (IF pNotify[1].bMuted THEN 1 ELSE 0)
                    /\ (result = "relayFailed" <=> ~written[2].ok))
    /\ [](isLinkActive =>
             /\ subs = {m_pMasterEndptVol}
             /\ m_pSlaveEndptVol \notin subs
             /\ \A i \in DOMAIN queue : queue[i].src = m_pMasterEndptVol)
    /\ [][lastOp' = "onVolumeCallback" =>
             (queue' = queue \/ (queue # <<>> /\ queue' = Tail(queue)))]_vars

\* The handler relayed a master change to the slave with both writes, while
\* another notification from the master was not waiting: its writes to the
\* slave queued nothing.
C27_Witness ==
    /\ lastOp = "onVolumeCallback"
    /\ result = "relayed"
    /\ Len(written) = 2
    /\ isLinkActive
    /\ queue = <<>>
    /\ devVol[m_pSlaveEndptVol] = pNotify[1].fMasterVolume

\* C28: getExitCode() is 0 or 1; it changes only in a run of the handler whose
\* relay failed, and then from 0 to 1, so it is 0 unless such a failure
\* occurred and once 1 it never returns to 0, whatever is called afterwards;
\* and the exit code posted when WM_CLOSE is handled is getExitCode() at that
\* moment.
C28_ExitCodeOnlyRaisedByRelayFailure ==
    /\ [](getExitCode \in {0, 1})
    /\ [][m_exitCode' # m_exitCode =>
             /\ m_exitCode = 0 /\ m_exitCode' = 1
             /\ lastOp' = "onVolumeCallback" /\ result' = "relayFailed"]_vars
    /\ [][lastOp' = "WM_CLOSE" =>
             /\ m_exitCode' = m_exitCode
             /\ (result' = "exit0" <=> m_exitCode = 0)
             /\ (result' = "exit1" <=> m_exitCode = 1)]_vars

\* After a reported relay failure the controller was unlinked and successfully
\* linked again, and the exit code is still 1.
C28_Witness ==
    /\ getExitCode = 1
    /\ lastOp = "linkDevices"
    /\ result = "ok"
    /\ prevMaster = -1
    /\ isLinkActive

\* C29: _setSlaveVolume writes the slave's volume first and its mute state
\* second and succeeds only if both writes did.  If the volume write fails the
\* mute write is not attempted and the slave is unchanged; if the mute write
\* fails after the volume write succeeded, the call fails with the slave
\* holding the new volume and its old mute state; without a slave handle it
\* returns true and writes nothing.  So a linkDevices call that fails in this
\* step with two writes leaves the slave with the master's volume.
C29_SlaveVolumeThenMute ==
    /\ [][written' # <<>> =>
             LET w == written'
                 sl == written'[1].dev
             IN  /\ lastOp' \in {"linkDevices", "onVolumeCallback"}
                 /\ w[1].kind = "volume"
                 /\ \A i \in DOMAIN w : w[i].dev = sl
                 /\ ~w[1].ok =>
                        /\ Len(w) = 1
                        /\ devVol'[sl] = devVol[sl] /\ devMute'[sl] = devMute[sl]
                        /\ result' \in {"Sync", "relayFailed"}
                 /\ w[1].ok =>
                        /\ Len(w) = 2
                        /\ w[2].kind = "mute"
                        /\ devVol'[sl] = w[1].val
                        /\ ~w[2].ok =>
                               /\ devMute'[sl] = devMute[sl]
                               /\ result' \in {"Sync", "relayFailed"}
                        /\ w[2].ok =>
                               /\ devMute'[sl] = (w[2].val = 1)
                               /\ result' \in {"ok", "relayed"}]_vars
    /\ [](\A v \in Volumes, m \in BOOLEAN, fail \in RelayFailures :
             LET s == [St EXCEPT !.sVol = nullptr]
                 r == setSlaveVolume(s, v, m, fail)
             IN  r.success /\ r.w = <<>> /\ r.s = s)
    /\ []((lastOp = "linkDevices" /\ result = "Sync" /\ Len(written) = 2) =>
             (~isLinkActive /\ devVol[slaveIdx] = pre[1]))

\* A linkDevices call failed at the mute write of its sync: the slave holds the
\* master's volume 0.42 and not the master's mute state.
C29_Witness ==
    /\ lastOp = "linkDevices"
    /\ result = "Sync"
    /\ Len(written) = 2
    /\ pre[1] = 420
    /\ devVol[slaveIdx] = 420
    /\ devMute[slaveIdx] # pre[2]

\* C30: at every point between operations the controller has at most one
\* notification subscription over all endpoints; one is registered if and only
\* if the controller is linked, and it is on the endpoint at
\* getMasterDeviceIdx(); re-linking from (a, b) to another master leaves no
\* subscription on a.
C30_OneSubscriptionIffLinked ==
    /\ Cardinality(subs) <= 1
    /\ subs # {} <=> isLinkActive
    /\ isLinkActive =>
           /\ getMasterDeviceIdx \in Devices
           /\ subs = {getMasterDeviceIdx}
           /\ m_pMasterEndptVol = getMasterDeviceIdx
    /\ ~isLinkActive => getMasterDeviceIdx = -1
    /\ (lastOp = "linkDevices" /\ prevMaster # -1 /\ getMasterDeviceIdx # prevMaster) =>
           prevMaster \notin subs

\* The controller, linked to (a, b), was linked anew with b as master: the one
\* subscription is on b.
C30_Witness ==
    /\ lastOp = "linkDevices"
    /\ result = "ok"
    /\ prevMaster # -1
    /\ prevMaster = slaveIdx
    /\ subs = {masterIdx}

\* C21: the stored settings are written only if the user pressed the link
\* button or changed a dropdown selection during the session: as long as the
\* user did neither, the registry record is the one the program found when it
\* started, also after the startup link ran, after a stored device was not
\* found and its selection left empty, and after WM_CLOSE or WM_ENDSESSION.
C21_SettingsWrittenOnlyAfterManualChange ==
    ~manual => registry = registry0

\* C21: a session started with /link whose stored slave is not plugged in,
\* closed without the user having changed anything.
C21_Witness ==
    /\ hostPc \in {"quitPosted", "sessionEnded"}
    /\ ~manual
    /\ g_optForceLink
    /\ registry0 # NoSettings
    /\ registry0.SlaveDevice = 3
    /\ masterSel # -1
    /\ slaveSel = -1
    /\ registry = registry0

\* C22: when the dialog has started, it has called linkDevices if and only if
\* (the stored LinkActive flag was set or /link was given) and the stored
\* master and slave identifiers are both those of devices in the catalog,
\* where a record that could not be read in full counts as nothing stored;
\* so with /link the call is made also when the stored flag is 0. The call is
\* made with the offsets of those two devices; if it fails no error box is
\* shown, nothing is linked and nothing is subscribed.
C22_StartupLinksIffAskedAndFound ==
    lastOp = "WM_INITDIALOG" =>
        LET cfg == settings[1]
            defaults == [linkActive |-> FALSE, masterDeviceId |-> EmptyId,
                         slaveDeviceId |-> EmptyId]
            inCatalog(id) ==
                id # EmptyId /\ \E k \in 1 .. Len(m_audioDevices) : m_audioDevices[k].m_wsId = id
            complete == registry.LinkActive # NoValue /\ registry.MasterDevice # NoValue
                        /\ registry.SlaveDevice # NoValue
        IN  /\ \/ cfg = defaults
               \/ /\ complete
                  /\ cfg = [linkActive |-> registry.LinkActive = 1,
                            masterDeviceId |-> registry.MasterDevice,
                            slaveDeviceId |-> registry.SlaveDevice]
            /\ attempted <=> /\ cfg.linkActive \/ g_optForceLink
                             /\ inCatalog(cfg.masterDeviceId)
                             /\ inCatalog(cfg.slaveDeviceId)
            /\ inCatalog(cfg.masterDeviceId) =>
                   /\ masterSel \in Devices
                   /\ m_audioDevices[masterSel + 1].m_wsId = cfg.masterDeviceId
            /\ inCatalog(cfg.slaveDeviceId) =>
                   /\ slaveSel \in Devices
                   /\ m_audioDevices[slaveSel + 1].m_wsId = cfg.slaveDeviceId
            /\ ~errorBox
            /\ ~attempted => ~m_bLinkActive /\ result = "ok"
            /\ attempted /\ result = "ok" =>
                   /\ m_bLinkActive
                   /\ m_iMasterDeviceIdx = masterSel
                   /\ m_iSlaveDeviceIdx = slaveSel
            /\ attempted /\ result # "ok" => ~m_bLinkActive /\ subs = {}

\* C22: the program was started with /link on a record whose flag is 0 and
\* whose devices are both plugged in, and the link it attempted failed.
C22_Witness ==
    /\ lastOp = "WM_INITDIALOG"
    /\ g_optForceLink
    /\ registry.LinkActive = 0
    /\ attempted
    /\ result # "ok"
    /\ ~errorBox
    /\ ~m_bLinkActive

\* C24: once the AudioDeviceManager has been destroyed, on whichever way out
\* of the host (WM_CLOSE and the end of the message loop, WM_ENDSESSION, an
\* exception caught in wWinMain), the callback is registered on no endpoint
\* and no notification waits for delivery; and every step of the handler, up
\* to and after the message box of its fatal report, is taken by a controller
\* that exists.
C24_UnregisteredBeforeDestroyed ==
    /\ [](~g_deviceManager => subs = {} /\ queue = <<>>)
    /\ [][lastOp' \in {"onVolumeCallback", "MessageBoxW"} => g_deviceManager]_vars

\* C24: an exception ended wWinMain while two devices were linked, and the
\* controller has been destroyed.
C24_Witness ==
    /\ ~g_deviceManager
    /\ hostPc = "exited"
    /\ errorBox
    /\ prevMaster \in Devices
    /\ prevSlave \in Devices
    /\ subs = {}

\* C23: a link torn down while a notification is being handled leaves the
\* rest of the handler harmless. The handler gives up control only in the
\* message box of its fatal report; if the link was broken while the box was
\* open, what the handler does after the box writes to no endpoint, leaves the
\* exit code as it was, gets no close request to the dialog and leaves the
\* controller unlinked, with both handles released and nothing subscribed. And
\* in every state, a handler or a relay that starts once unlinkDevices has run
\* writes nothing, reports no failure and leaves the controller unlinked.
C23_TeardownDuringHandlerIsSafe ==
    /\ [][lastOp' = "MessageBoxW" /\ ~m_bLinkActive =>
             /\ written' = <<>>
             /\ ~fatal'
             /\ devVol' = devVol
             /\ devMute' = devMute
             /\ m_exitCode' = m_exitCode
             /\ closePosted' = closePosted
             /\ ~m_bLinkActive'
             /\ m_pMasterEndptVol' = nullptr
             /\ m_pSlaveEndptVol' = nullptr
             /\ subs' = {}]_vars
    /\ [](\A d \in Devices, v \in Volumes, m \in BOOLEAN, ctx \in Contexts,
             fail \in RelayFailures :
             LET u == unlinkDevices(St)
                 h == onVolumeCallback(u, Notification(d, v, m, ctx), fail)
                 r == setSlaveVolume(u, v, m, fail)
             IN  /\ ~u.active /\ u.mVol = nullptr /\ u.sVol = nullptr
                 /\ h.s = u /\ h.w = <<>> /\ ~h.fat /\ h.res = "ignored"
                 /\ r.s = u /\ r.w = <<>> /\ r.success)

\* C23: the dialog handled WM_CLOSE, breaking the link, while the handler's
\* message box was open, and the handler has then run to its end.
C23_Witness ==
    /\ lastOp = "MessageBoxW"
    /\ hostPc = "quitPosted"
    /\ g_hDlg = 0
    /\ m_exitCode = 1
    /\ ~m_bLinkActive
    /\ ~closePosted
    /\ subs = {}

\* C33: WM_CLOSE and WM_ENDSESSION save the settings before they break the
\* link: whenever one of them has written the whole record, the LinkActive it
\* stored is 1 exactly if the link was active when the message arrived, and
\* the identifiers are those of the devices that were linked then; and in
\* every state in which the quit message has been posted or the controller
\* destroyed, the link is broken and nothing is subscribed.
C33_SavedBeforeUnlinked ==
    /\ [][lastOp' \in {"WM_CLOSE", "WM_ENDSESSION"} /\ g_saveChanges /\ ~g_saveChanges' =>
             /\ registry'.LinkActive = (IF m_bLinkActive THEN 1 ELSE 0)
             /\ m_bLinkActive =>
                    /\ registry'.MasterDevice = m_audioDevices[m_iMasterDeviceIdx + 1].m_wsId
                    /\ registry'.SlaveDevice = m_audioDevices[m_iSlaveDeviceIdx + 1].m_wsId
             /\ ~m_bLinkActive'
             /\ subs' = {}]_vars
    /\ [](hostPc \in {"quitPosted", "sessionEnded", "exited"} \/ ~g_deviceManager =>
             ~m_bLinkActive /\ subs = {} /\ queue = <<>>)

\* C33: the session ended while two devices were linked, the record written
\* says so, and the link is broken.
C33_Witness ==
    /\ lastOp = "WM_ENDSESSION"
    /\ registry0.LinkActive # 1
    /\ registry.LinkActive = 1
    /\ ~g_saveChanges
    /\ prevMaster \in Devices
    /\ ~m_bLinkActive
    /\ ~g_deviceManager

\* C34: a change of the selection in either dropdown leaves no link active;
\* the link button calls linkDevices only when both dropdowns have a
\* selection, and unlinks otherwise; and in every state in which the
\* controller is linked, the selections of the master and slave dropdowns are
\* getMasterDeviceIdx() and getSlaveDeviceIdx().
C34_SelectionsAreTheLinkedDevices ==
    /\ [](m_bLinkActive =>
             /\ masterSel \in Devices
             /\ slaveSel \in Devices
             /\ masterSel = m_iMasterDeviceIdx
             /\ slaveSel = m_iSlaveDeviceIdx)
    /\ [](lastOp = "CBN_SELCHANGE" => ~m_bLinkActive /\ subs = {})
    /\ [](lastOp = "IDC_BUTTON_LINK" =>
             /\ attempted => masterSel >= 0 /\ slaveSel >= 0
             /\ masterSel < 0 \/ slaveSel < 0 => ~m_bLinkActive)
    /\ [][lastOp' = "CBN_SELCHANGE" =>
             (masterSel' # masterSel \/ slaveSel' # slaveSel)]_vars

\* C34: the user selected two devices and pressed the link button, and they
\* are linked.
C34_Witness ==
    /\ lastOp = "IDC_BUTTON_LINK"
    /\ registry0 = NoSettings
    /\ masterSel = 1
    /\ slaveSel = 0
    /\ m_bLinkActive
    /\ m_iMasterDeviceIdx = 1
    /\ m_iSlaveDeviceIdx = 0

\* C35: every settings record the program writes is consistent: whenever the
\* stored record changes, its LinkActive is 1 only if a link was active when
\* the save began, both stored identifiers are non-empty, differ and are those
\* of the linked master and slave; and a dropdown whose selection resolves to
\* no device has the empty identifier stored, with LinkActive 0.
C35_WrittenRecordsConsistent ==
    [][registry' # registry =>
          /\ registry'.LinkActive = 1 =>
                 /\ m_bLinkActive
                 /\ registry'.MasterDevice # EmptyId
                 /\ registry'.SlaveDevice # EmptyId
                 /\ registry'.MasterDevice # registry'.SlaveDevice
                 /\ registry'.MasterDevice = m_audioDevices[m_iMasterDeviceIdx + 1].m_wsId
                 /\ registry'.SlaveDevice = m_audioDevices[m_iSlaveDeviceIdx + 1].m_wsId
          /\ masterSel \notin Devices =>
                 registry'.MasterDevice = EmptyId /\ registry'.LinkActive = 0
          /\ slaveSel \notin Devices =>
                 registry'.SlaveDevice = EmptyId /\ registry'.LinkActive = 0]_vars

\* C36: when the user moves the slider while two devices are linked and the
\* writes succeed, the master's volume becomes position/100; at position 0
\* the master is muted, whatever the checkbox showed; and if the checkbox
\* showed the master's mute state, the master ends muted exactly if the
\* position is 0, the checkbox shows that, and the last notification waiting
\* for the handler carries that volume and mute state. Whenever the handler
\* has relayed the last waiting notification, the slave has the master's
\* volume and mute state.
C36_SliderSetsVolumeAndMute ==
    /\ [][lastOp' = "WM_HSCROLL" /\ result' = "ok" =>
             LET pos == iVolume'[1]
                 m == m_pMasterEndptVol
             IN  /\ m_bLinkActive /\ m \in Devices
                 /\ devVol'[m] * MAX_VOL = 1000 * pos
                 /\ pos = 0 => devMute'[m] /\ muteChecked'
                 /\ muteChecked = devMute[m] =>
                        /\ devMute'[m] = (pos = 0)
                        /\ muteChecked' = devMute'[m]
                        /\ queue' # <<>>
                        /\ queue'[Len(queue')] =
                               Notification(m, devVol'[m], pos = 0, ProcessGUID)]_vars
    /\ [][lastOp' = "onVolumeCallback" /\ result' = "relayed" /\ queue' = <<>> =>
             /\ devVol'[m_pSlaveEndptVol] = devVol'[m_pMasterEndptVol]
             /\ devMute'[m_pSlaveEndptVol] = devMute'[m_pMasterEndptVol]]_vars

\* C36: the master was muted and the checkbox checked; the user moved the
\* slider to 42, and the master is at 0.42 and unmuted, with both changes
\* waiting for the handler.
C36_Witness ==
    /\ lastOp = "WM_HSCROLL"
    /\ result = "ok"
    /\ iVolume = <<42>>
    /\ devVol[m_pMasterEndptVol] = 420
    /\ ~devMute[m_pMasterEndptVol]
    /\ ~muteChecked
    /\ Len(queue) = 2
    /\ queue[2].bMuted = FALSE
    /\ queue[1].bMuted = TRUE

\* C31: the reference counter of the callback object embedded in the
\* controller never falls below 1, so Release never reaches 0: over any
\* sequence of link, failed link and unlink calls the counter is 1 plus the
\* number of registrations in force (at most one); a step that releases a
\* reference releases exactly the one a successful registration added, and
\* what runs on a controller that is not linked releases none.
C31_CallbackObjectNeverReleased ==
    /\ [](m_references >= 1)
    /\ [](m_references = 1 + Cardinality(subs) /\ m_references <= 2)
    /\ [][m_references' < m_references =>
              m_references = 2 /\ m_references' = 1 /\ m_bLinkActive]_vars
    /\ [][~m_bLinkActive /\ lastOp' \in {"unlinkDevices", "WM_CLOSE"} =>
              m_references' = m_references]_vars

\* C31: a link was in force, and the next linkDevices call tore it down and
\* then failed to register: the master handle is held, nothing is registered
\* and the counter is back at 1.
C31_Witness ==
    /\ lastOp = "linkDevices"
    /\ result = "Subscription"
    /\ prevMaster # -1
    /\ m_pMasterEndptVol # nullptr
    /\ ~m_bLinkActive
    /\ subs = {}
    /\ m_references = 1

\* C32: OnNotify given a null notification returns E_INVALIDARG and invokes
\* no callable; given any other notification it returns S_OK, having invoked
\* the registered callable exactly once, with that notification, if one is
\* registered, and none if none is registered, as after unregisterCallback;
\* and whether or not the callable throws, no exception leaves OnNotify and
\* the result is the same.
C32_OnNotifyShieldsThePlatform ==
    /\ [][lastOp' = "OnNotify" =>
             /\ ~propagated'
             /\ pNotify' = <<>> =>
                    result' = "E_INVALIDARG" /\ invocations' = invocations
             /\ pNotify' # <<>> =>
                    /\ result' = "S_OK"
                    /\ invocations' = IF m_externalCallback \in Callables
                                      THEN Append(invocations, pNotify'[1])
                                      ELSE invocations]_vars
    /\ [][lastOp' = "unregisterCallback" => m_externalCallback' \notin Callables]_vars
    /\ [][lastOp = "unregisterCallback" /\ lastOp' = "OnNotify" =>
              invocations' = invocations]_vars

\* C32: a throwing callable is registered and was invoked with the
\* notification OnNotify was given, which returned S_OK.
C32_Witness ==
    /\ lastOp = "OnNotify"
    /\ m_externalCallback = "throws"
    /\ pNotify # <<>>
    /\ invocations # <<>>
    /\ invocations[Len(invocations)] = pNotify[1]
    /\ result = "S_OK"
    /\ ~propagated

====
